---------------------------- MODULE Spec2Model ----------------------------
(***************************************************************************)
(* State-machine model of the hub channel plugin in its three builds:      *)
(*   "botshub"  src/index.ts                (webhook only)                 *)
(*   "sdk"      src/unnamed/part_000:1-513  (persistent connection + HTTP) *)
(*   "hxa"      src/unnamed/part_000:515-899 (webhook only, renamed)       *)
(* One inbound webhook request is followed from its arrival to its         *)
(* response; every outbound logical call (channel lookup, direct send,     *)
(* channel send) is followed attempt by attempt.                           *)
(***************************************************************************)
EXTENDS Integers, Sequences, FiniteSets, TLC

(***************************************************************************)
(* Bounds of the model.                                                    *)
(***************************************************************************)
\* reply chunks the host dispatcher hands to deliver() for one inbound message
MaxChunks == 2
\* connection objects created by startAccount during one run
MaxConns == 2

(***************************************************************************)
(* Program constants.                                                      *)
(***************************************************************************)
MAX_SEND_RETRIES == 2
RETRY_BASE_MS == 1000
\* upper repetition bound of CHANNEL_ID_RE, /^[a-zA-Z0-9_-]{1,64}$/
CHANNEL_ID_MAX_LEN == 64

(***************************************************************************)
(* JavaScript values.  Undef is `undefined`, Null is `null`; every other   *)
(* value of the model is a string.                                         *)
(***************************************************************************)
Undef == "<undefined>"
Null == "<null>"

\* JavaScript truthiness of a string-or-nullish value: `if (x)`, `!x`, `x || y`
Truthy(v) == v \notin {Undef, Null, ""}

\* `a || b`
OrElse(a, b) == IF Truthy(a) THEN a ELSE b

\* `a ?? b`
Coalesce(a, b) == IF a \in {Undef, Null} THEN b ELSE a

(***************************************************************************)
(* The strings used as identifiers, by length and by whether every         *)
(* character is in [a-zA-Z0-9_-].                                          *)
(***************************************************************************)
StrInfo ==
    [s \in {"c1", "../x", "bob", "longid65", "twenty-chars-bot-nam",
             "averyveryverylongname", "a.dotted.long.bot.name", "id64", "c2", "amy"} |->
        CASE s = "c1"       -> [len |-> 2,  wordChars |-> TRUE]
          [] s = "../x"     -> [len |-> 4,  wordChars |-> FALSE]
          [] s = "bob"      -> [len |-> 3,  wordChars |-> TRUE]
          [] s = "longid65" -> [len |-> 65, wordChars |-> TRUE]
          [] s = "twenty-chars-bot-nam"   -> [len |-> 20, wordChars |-> TRUE]
          [] s = "averyveryverylongname"  -> [len |-> 21, wordChars |-> TRUE]
          [] s = "a.dotted.long.bot.name" -> [len |-> 22, wordChars |-> FALSE]
          [] s = "id64"     -> [len |-> 64, wordChars |-> TRUE]
          [] s = "c2"       -> [len |-> 2,  wordChars |-> TRUE]
          [] s = "amy"      -> [len |-> 3,  wordChars |-> TRUE]]

\* CHANNEL_ID_RE.test(s)
CHANNEL_ID_RE(s) ==
    /\ s \in DOMAIN StrInfo
    /\ StrInfo[s].wordChars
    /\ StrInfo[s].len >= 1
    /\ StrInfo[s].len <= CHANNEL_ID_MAX_LEN

\* assertSafeChannelId: TRUE when it returns, FALSE when it throws
assertSafeChannelId(channelId) == CHANNEL_ID_RE(channelId)

(***************************************************************************)
(* Configuration, as loadConfig() returns it for one request.              *)
(***************************************************************************)
Configs ==
    { [hubUrl |-> "https://hub", agentToken |-> "tok", orgId |-> Undef,  webhookSecret |-> Undef],
      [hubUrl |-> "https://hub", agentToken |-> "tok", orgId |-> "org1", webhookSecret |-> "xyz"],
      [hubUrl |-> Undef,         agentToken |-> "tok", orgId |-> Undef,  webhookSecret |-> Undef],
      [hubUrl |-> "https://hub", agentToken |-> Undef, orgId |-> "org1", webhookSecret |-> "xyz"] }

NoConfig == [hubUrl |-> Undef, agentToken |-> Undef, orgId |-> Undef, webhookSecret |-> Undef]

\* `!bh.hubUrl || !bh.agentToken`
NotConfigured(bh) == ~Truthy(bh.hubUrl) \/ ~Truthy(bh.agentToken)

(***************************************************************************)
(* Authorization header of a webhook request: the empty tuple when the     *)
(* header is absent, else <<its first seven characters, the rest>>.        *)
(***************************************************************************)
NoHeader == << >>

AuthHeaders ==
    { NoHeader,
      <<"Bearer ", "xyz">>,
      <<"Bearer ", "wrong">>,
      <<"Bearer ", "">>,
      <<"bearer ", "xyz">>,
      <<"xyz", "">> }

\* `req.headers?.authorization ?? ""`
HeaderOrEmpty(h) == IF h = NoHeader THEN <<"", "">> ELSE h

\* BearerToken without the test of the prefix
BearerToken_AnyPrefix(h) == HeaderOrEmpty(h)[2]

\* `authHeader.startsWith("Bearer ") ? authHeader.slice(7) : ""`
BearerToken(h) ==
    LET authHeader == HeaderOrEmpty(h)
    IN  IF authHeader[1] = "Bearer " THEN authHeader[2] ELSE ""

\* the secret check of handleInboundWebhook: TRUE when the request may proceed
SecretCheckPasses(bh, h) ==
    IF Truthy(bh.webhookSecret) THEN BearerToken(h) = bh.webhookSecret ELSE TRUE

(***************************************************************************)
(* Request bodies.  A body is what the handler holds after its parse step: *)
(* an object (either wire shape), or what a raw stream can also yield:     *)
(* text that is no JSON, the JSON value null, a JSON scalar.               *)
(* `message` is the nested object of the versioned envelope; an absent     *)
(* `message` reads as Undef on every field, as `msg?.field` does.          *)
(***************************************************************************)
NoMessage == [sender_id |-> Undef, content |-> Undef, id |-> Undef]

NoFields ==
    [webhook_version |-> Undef, channel_id |-> Undef, sender_name |-> Undef,
     sender_id |-> Undef, content |-> Undef, message_id |-> Undef,
     chat_type |-> Undef, group_name |-> Undef, message |-> NoMessage]

ChannelIdValues == {Undef, "c1", "../x"}
SenderNameValues == {Undef, "", "bob"}
ContentValues == {Undef, "", "hi"}
ChatTypeValues == {Undef, "direct", "group"}

\* versioned envelopes: {webhook_version: "1", channel_id, sender_name, message};
\* with `extra` the top-level legacy fields are filled in as well
V1Bodies ==
    { [NoFields EXCEPT !.webhook_version = "1",
                       !.channel_id = c, !.sender_name = s,
                       !.message = m,
                       !.content = IF extra THEN "top-level" ELSE Undef,
                       !.chat_type = IF extra THEN "direct" ELSE Undef,
                       !.group_name = IF extra THEN "top-group" ELSE Undef] :
        c \in ChannelIdValues, s \in SenderNameValues, extra \in BOOLEAN,
        m \in {NoMessage}
              \cup { [sender_id |-> IF x = "hi" THEN "u7" ELSE Undef,
                      content |-> x,
                      id |-> IF x = "hi" THEN "m1" ELSE Undef] : x \in ContentValues } }

\* legacy flat bodies; with `extra` they carry the optional fields and a
\* webhook_version other than "1"
LegacyBodies ==
    { [NoFields EXCEPT !.webhook_version = IF extra THEN "2" ELSE Undef,
                       !.channel_id = c, !.sender_name = s, !.content = x,
                       !.chat_type = t,
                       !.sender_id = IF extra THEN "u7" ELSE Undef,
                       !.message_id = IF extra THEN "m1" ELSE Undef,
                       !.group_name = IF extra THEN "team" ELSE Undef,
                       !.message = IF extra
                                   THEN [sender_id |-> "nested-id", content |-> "nested",
                                         id |-> "nested-m"]
                                   ELSE NoMessage] :
        c \in ChannelIdValues, s \in SenderNameValues, x \in ContentValues,
        t \in ChatTypeValues, extra \in BOOLEAN }

\* the number 1 as the value of a JSON field: not `===` to the string "1",
\* though `==` to it
Num1 == "<number 1>"

\* flat bodies that carry webhook_version: 1 (a number) and a nested message
NumericVersionBodies ==
    { [NoFields EXCEPT !.webhook_version = Num1,
                       !.channel_id = "c1", !.sender_name = "bob", !.content = x,
                       !.chat_type = t,
                       !.message = [sender_id |-> "nested-id", content |-> "nested",
                                    id |-> "nested-m"]] :
        x \in {Undef, "hi"}, t \in {Undef, "group"} }

ObjectBodies ==
    { [kind |-> "object", f |-> b] :
        b \in V1Bodies \cup LegacyBodies \cup NumericVersionBodies }

\* what the parse step can produce besides an object
OtherBodies ==
    { [kind |-> k, f |-> NoFields] : k \in {"invalid_json", "null", "scalar"} }

Bodies == ObjectBodies \cup OtherBodies

NoBody == [kind |-> "unread", f |-> NoFields]

(***************************************************************************)
(* What one HTTP attempt (`await fetch(url, ...)`) can come back with:     *)
(* a rejected promise (network error), or a response with a status, a      *)
(* Retry-After header (Null when absent), the outcome of resp.json() and   *)
(* whether resp.text() can be read.                                        *)
(***************************************************************************)
RetryAfterValues == {Null, "5", "0", "-3", "abc"}

NoJson == [kind |-> "none", type |-> Undef, name |-> Undef, id |-> Undef]

\* resp.json() of a 2xx answer to GET /api/channels/{id}
ChannelJson ==
    { [NoJson EXCEPT !.kind = "unparsable"],
      [NoJson EXCEPT !.kind = "null"],
      [NoJson EXCEPT !.kind = "object", !.type = "direct", !.name = Null],
      [NoJson EXCEPT !.kind = "object", !.type = "group", !.name = "team"],
      [NoJson EXCEPT !.kind = "object", !.type = "thread", !.name = "topic"],
      [NoJson EXCEPT !.kind = "object"] }

\* resp.json() of a 2xx answer to a POST of a message
MessageJson ==
    { [NoJson EXCEPT !.kind = "unparsable"],
      [NoJson EXCEPT !.kind = "object", !.id = "h1"],
      [NoJson EXCEPT !.kind = "object"] }

\* no attempt has settled yet
NoResp ==
    [kind |-> "none", status |-> 0, retryAfter |-> Null, json |-> NoJson, textOk |-> FALSE]

NetworkError ==
    [kind |-> "neterr", status |-> 0, retryAfter |-> Null, json |-> NoJson, textOk |-> FALSE]

FetchOutcomes(op) ==
    {NetworkError}
    \cup { [kind |-> "resp", status |-> 200, retryAfter |-> Null, json |-> j, textOk |-> TRUE] :
             j \in IF op = "lookup" THEN ChannelJson ELSE MessageJson }
    \cup { [kind |-> "resp", status |-> 429, retryAfter |-> r, json |-> NoJson, textOk |-> TRUE] :
             r \in RetryAfterValues }
    \cup { [kind |-> "resp", status |-> 500, retryAfter |-> Null, json |-> NoJson, textOk |-> t] :
             t \in BOOLEAN }
    \cup { [kind |-> "resp", status |-> 404, retryAfter |-> Null, json |-> NoJson, textOk |-> TRUE] }

\* resp.ok
RespOk(r) == r.status >= 200 /\ r.status <= 299

(***************************************************************************)
(* What a primitive of the connection object (getChannel, send,            *)
(* sendMessage) can settle with: a value, null/undefined, or a throw.      *)
(***************************************************************************)
SdkOutcomes(op) ==
    { [NoJson EXCEPT !.kind = "throw"], [NoJson EXCEPT !.kind = "null"] }
    \cup IF op = "lookup"
         THEN { [NoJson EXCEPT !.kind = "object", !.type = "direct", !.name = Undef],
                [NoJson EXCEPT !.kind = "object", !.type = "group", !.name = "team"],
                [NoJson EXCEPT !.kind = "object", !.type = "thread", !.name = "topic"],
                [NoJson EXCEPT !.kind = "object"] }
         ELSE { [NoJson EXCEPT !.kind = "object", !.id = "s1"] }

(***************************************************************************)
(* State.                                                                  *)
(***************************************************************************)
VARIABLES
    variant,    \* which build runs: "botshub", "sdk" or "hxa"
    sdkClient,  \* `let sdkClient`: 0 is null, n > 0 the n-th connection object
    conns,      \* state of each connection object created so far
    stopFns,    \* whether startAccount has returned a stop function
    gateway,    \* the startAccount call in progress, or the last start or stop
    accountStatus,  \* the `status` of the last setStatus call made to the host
    peer,       \* a second inbound request, handled while the first is in hand
    req,        \* the webhook request in hand: position and locals of the handler
    call,       \* the outbound logical call in hand
    obs         \* what the request in hand has done so far

vars == <<variant, sdkClient, conns, stopFns, gateway, accountStatus, peer, req, call, obs>>

Variants == {"botshub", "sdk", "hxa"}

NoNorm ==
    [channel_id |-> Undef, sender_name |-> Undef, sender_id |-> Undef,
     content |-> Undef, message_id |-> Undef, chat_type |-> Undef,
     group_name |-> Undef]

NoCtx == [ChatType |-> Undef, GroupSubject |-> Undef, SenderName |-> Undef,
          SenderId |-> Undef, RawBody |-> Undef, MessageSid |-> Undef]

\* no reply payload is in hand
NoPayload == [kind |-> "none", s |-> Undef, text |-> Undef, body |-> Undef, str |-> Undef]

\* the handler's position and locals: bh is the configuration it loaded, body
\* the parsed body, n the seven normalized variables, ctx the ctxPayload it
\* hands to the host, and isGroup, replyChannelId and replySenderName what the
\* deliver closure captures; chunks counts the calls of deliver and payload is
\* the argument of the call of deliver in hand or, when it returned without a
\* send, of the last one.  src tells a
\* webhook request from a `message` event of connection object conn, which
\* runs through the same dispatchInboundMessage
IdleReq ==
    [pc |-> "idle", src |-> "none", conn |-> 0, bh |-> NoConfig, authHeader |-> NoHeader, body |-> NoBody,
     n |-> NoNorm, ctx |-> NoCtx, isGroup |-> FALSE,
     replyChannelId |-> Undef, replySenderName |-> Undef, chunks |-> 0,
     payload |-> NoPayload]

\* the second request: the locals of its handler, as those of the first, and
\* the sends its deliver has begun
NoPeer == [r |-> IdleReq, sends |-> {}]

\* once the host's dispatcher runs, the handler reads body, n and ctx no more:
\* the model forgets them
InDispatch(r) == [r EXCEPT !.body = NoBody, !.n = NoNorm, !.ctx = NoCtx]

\* the `init` argument of hubFetch: {method: "POST", body: JSON.stringify(...)}
\* of the sends, {method: "GET"} of the channel lookup
NoInit == [method |-> Undef, body |-> Undef]
PostInit == [method |-> "POST", body |-> "json-text"]
GetInit == [method |-> "GET", body |-> Undef]

\* the `headers` object of hubFetch; an absent key reads as Undef, and the
\* Authorization value is <<"Bearer ", the text after it>>
NoHeaders == [Authorization |-> << >>, XOrgId |-> Undef, ContentType |-> Undef]

NoErr == [kind |-> "none", status |-> 0, body |-> ""]

NoCall ==
    [op |-> "none", owner |-> "none", target |-> Undef, bh |-> NoConfig,
     pc |-> "none", transport |-> "none", attempt |-> 0, issued |-> 0,
     settled |-> 0, delayMs |-> 0, waited |-> << >>,
     init |-> NoInit, headers |-> NoHeaders, resp |-> NoResp, sdkRet |-> NoJson,
     ret |-> NoJson, err |-> NoErr]

NoObs ==
    [response |-> 0, responses |-> 0, threw |-> "none", parsed |-> FALSE,
     lookups |-> 0, lookupTarget |-> Undef, lookupRet |-> NoJson,
     logged |-> FALSE, routed |-> FALSE,
     dispatchDone |-> FALSE, sends |-> {}, http |-> {}, sdk |-> {},
     replyErrors |-> 0, hub |-> NoResp, lookupAgain |-> NoJson]

\* no startAccount and no stop has been called yet
NoGateway == [pc |-> "idle", op |-> "none", mode |-> Undef, client |-> 0, result |-> "none"]

Init ==
    /\ variant \in Variants
    /\ sdkClient = 0
    /\ conns = << >>
    /\ stopFns = FALSE
    /\ gateway = NoGateway
    /\ accountStatus = Undef
    /\ peer = NoPeer
    /\ req = IdleReq
    /\ call = NoCall
    /\ obs = NoObs

(***************************************************************************)
(* Connection mode controller (SDK build).                                 *)
(***************************************************************************)
Modes == {Undef, "sdk", "webhook", "auto"}

\* `bh.mode || 'sdk'`
ResolveMode(mode) == OrElse(mode, "sdk")

\* `mode === 'sdk' || mode === 'auto'`
AttemptsConnect(mode) == ResolveMode(mode) \in {"sdk", "auto"}

\* StartFailureIsFatal with the fallback taken in every mode
StartFailureIsFatal_Never(mode) == FALSE

\* the catch of startAccount: TRUE when the start error is rethrown
StartFailureIsFatal(mode) == ResolveMode(mode) # "auto"

\* the events initSdkClient attaches a handler for with client.on(...)
EventNames == {"message", "thread_message", "bot_online", "bot_offline", "error", "close"}

\* NewClient with no handler attached before connect() is called
NewClient_NoHandlers == [state |-> "connecting", handlers |-> {}, closed |-> FALSE]

\* the connection object of initSdkClient at the moment connect() is called
NewClient == [state |-> "connecting", handlers |-> EventNames, closed |-> FALSE]

\* startAccount has ended: by returning the stop function or by throwing
StartEnded(mode, client, threw) ==
    [pc |-> "idle", op |-> "start", mode |-> mode, client |-> client,
     result |-> IF threw THEN "threw" ELSE "returned"]

\* gateway.startAccount of the SDK build up to `await client.connect()`.  In
\* mode webhook it returns the stop function at once; otherwise initSdkClient
\* throws for a missing hubUrl or agentToken or a failed import of the SDK, or
\* creates the connection object, attaches the handlers and calls connect().
StartBegin(bh, mode, importOk) ==
    /\ variant = "sdk"
    /\ gateway.pc = "idle"
    /\ UNCHANGED <<variant, sdkClient, peer, req, call, obs>>
    /\ accountStatus' = Undef
    /\ IF ~AttemptsConnect(mode)
       THEN /\ gateway' = StartEnded(mode, 0, FALSE)
            /\ stopFns' = TRUE
            /\ UNCHANGED conns
       ELSE IF NotConfigured(bh) \/ ~importOk
       THEN /\ gateway' = StartEnded(mode, 0, StartFailureIsFatal(mode))
            /\ stopFns' = (stopFns \/ ~StartFailureIsFatal(mode))
            /\ UNCHANGED conns
       ELSE /\ Len(conns) < MaxConns
            /\ conns' = Append(conns, NewClient)
            /\ gateway' = [pc |-> "connecting", op |-> "start", mode |-> mode,
                           client |-> Len(conns) + 1, result |-> "none"]
            /\ UNCHANGED stopFns

\* StatusAfterConnect that reports the connection whatever connect() did
StatusAfterConnect_Always(connectOk, s) == "connected"

\* `runtime.setStatus?.({ accountId: 'default', status: 'connected' })` after
\* `await client.connect()`; a rejected connect() skips it
StatusAfterConnect(connectOk, s) == IF connectOk THEN "connected" ELSE s

\* `await client.connect()` settles: on success initSdkClient returns the
\* client, startAccount assigns it to sdkClient and returns the stop function;
\* on failure the catch of startAccount falls back (auto) or rethrows
ConnectSettle(connectOk) ==
    /\ gateway.pc = "connecting"
    /\ UNCHANGED <<variant, peer, req, call, obs>>
    /\ accountStatus' = StatusAfterConnect(connectOk, accountStatus)
    /\ IF connectOk
       THEN /\ conns' = [conns EXCEPT ![gateway.client].state = "connected"]
            /\ sdkClient' = gateway.client
            /\ stopFns' = TRUE
            /\ gateway' = StartEnded(gateway.mode, gateway.client, FALSE)
       ELSE /\ conns' = [conns EXCEPT ![gateway.client].state = "failed"]
            /\ stopFns' = (stopFns \/ ~StartFailureIsFatal(gateway.mode))
            /\ gateway' = StartEnded(gateway.mode, gateway.client,
                                     StartFailureIsFatal(gateway.mode))
            /\ UNCHANGED sdkClient

\* Disconnected leaving the connection object as it is
Disconnected_Noop(c) == c

\* the connection object after `sdkClient.disconnect()`
Disconnected(c) == [c EXCEPT !.state = "disconnected"]

\* a stop function startAccount returned is invoked: disconnectSdkClient()
Stop ==
    /\ variant = "sdk"
    /\ stopFns
    /\ gateway.pc = "idle"
    /\ UNCHANGED <<variant, stopFns, accountStatus, peer, req, call, obs>>
    /\ gateway' = [pc |-> "idle", op |-> "stop", mode |-> Undef,
                   client |-> sdkClient, result |-> "returned"]
    /\ IF sdkClient # 0
       THEN /\ conns' = [conns EXCEPT ![sdkClient] = Disconnected(@)]
            /\ sdkClient' = 0
       ELSE UNCHANGED <<sdkClient, conns>>

\* connection object i emits `close`: its socket has closed, after it was
\* open, after disconnect() or after a failed connect().  The handler logs and
\* calls setStatus with 'disconnected'; it does not touch sdkClient
Close(i) ==
    /\ variant = "sdk"
    /\ i \in 1..Len(conns)
    /\ conns[i].state \in {"connected", "disconnected", "failed"}
    /\ ~conns[i].closed
    /\ "close" \in conns[i].handlers
    /\ conns' = [conns EXCEPT ![i].closed = TRUE]
    /\ accountStatus' = "disconnected"
    /\ UNCHANGED <<variant, sdkClient, stopFns, gateway, peer, req, call, obs>>

(***************************************************************************)
(* Outbound transport: hubFetch.                                           *)
(***************************************************************************)
\* `${v}` in a template literal
TemplateString(v) == CASE v = Undef -> "undefined" [] v = Null -> "null" [] OTHER -> v

\* HubFetchHeaders that sets the content type on every request
HubFetchHeaders_AlwaysContentType(bh, init) ==
    [Authorization |-> <<"Bearer ", TemplateString(bh.agentToken)>>,
     XOrgId |-> IF Truthy(bh.orgId) THEN bh.orgId ELSE Undef,
     ContentType |-> "application/json"]

\* the headers hubFetch builds: Authorization always, X-Org-Id `if (bh.orgId)`,
\* Content-Type `if (init.body)`
HubFetchHeaders(bh, init) ==
    [Authorization |-> <<"Bearer ", TemplateString(bh.agentToken)>>,
     XOrgId |-> IF Truthy(bh.orgId) THEN bh.orgId ELSE Undef,
     ContentType |-> IF Truthy(init.body) THEN "application/json" ELSE Undef]

\* how many times the hubFetch of build v goes round again after a 429:
\* the loop `attempt <= MAX_SEND_RETRIES` of the webhook-only builds; the
\* hubFetch of the SDK build has no loop
HubFetchRetries(v) == IF v = "sdk" THEN 0 ELSE MAX_SEND_RETRIES

\* parseInt(s, 10) of a header value: nan, or the integer
ParseInt(s) ==
    CASE s = "5" -> [nan |-> FALSE, n |-> 5]
      [] s = "0" -> [nan |-> FALSE, n |-> 0]
      [] s = "-3" -> [nan |-> FALSE, n |-> 0 - 3]
      [] OTHER   -> [nan |-> TRUE,  n |-> 0]

\* DelayMs with a base delay that does not grow with the attempt
DelayMs_FlatBase(retryAfterHeader, attempt) ==
    LET retryAfter == ParseInt(OrElse(retryAfterHeader, ""))
    IN  IF ~retryAfter.nan /\ retryAfter.n > 0
        THEN retryAfter.n * 1000
        ELSE RETRY_BASE_MS

\* `retryAfter > 0 ? retryAfter * 1000 : RETRY_BASE_MS * (attempt + 1)`
DelayMs(retryAfterHeader, attempt) ==
    LET retryAfter == ParseInt(OrElse(retryAfterHeader, ""))
    IN  IF ~retryAfter.nan /\ retryAfter.n > 0
        THEN retryAfter.n * 1000
        ELSE RETRY_BASE_MS * (attempt + 1)

\* HttpError that leaves the text of the response out
HttpError_NoBody(status, text) == [kind |-> "http", status |-> status, body |-> ""]

\* `new Error(`... failed: ${resp.status} ${body}`)`
HttpError(status, text) == [kind |-> "http", status |-> status, body |-> text]
Thrown(kind) == [kind |-> kind, status |-> 0, body |-> ""]

\* RetriesLeft that allows one retry more than the loop has turns
RetriesLeft_Inclusive(v, attempt) == attempt <= HubFetchRetries(v)

\* `attempt < MAX_SEND_RETRIES` of the 429 branch
RetriesLeft(v, attempt) == attempt < HubFetchRetries(v)

\* one turn of hubFetch on the outcome o of `await fetch(...)`, in build v:
\* return the response, wait and go round again, or throw
HubFetchStep(v, attempt, o) ==
    IF o.kind = "neterr"
    THEN [tag |-> "throw", err |-> Thrown("network"), delayMs |-> 0]
    ELSE IF RespOk(o)
    THEN [tag |-> "return", err |-> NoErr, delayMs |-> 0]
    ELSE IF o.status = 429 /\ RetriesLeft(v, attempt)
    THEN [tag |-> "retry", err |-> NoErr, delayMs |-> DelayMs(o.retryAfter, attempt)]
    ELSE [tag |-> "throw",
          err |-> HttpError(o.status, IF o.textOk THEN "hub-text" ELSE ""),
          delayMs |-> 0]

(***************************************************************************)
(* Outbound transport: the three logical calls.                            *)
(***************************************************************************)
NullInfo == [NoJson EXCEPT !.kind = "null"]

\* ChannelInfoOfJson that gives the channel to the first lookup of a request
\* only, as a one-shot cache would
ChannelInfoOfJson_FirstOnly(json) ==
    IF json.kind = "object" /\ obs.lookups <= 1
    THEN [NoJson EXCEPT !.kind = "object", !.type = json.type, !.name = json.name]
    ELSE [NoJson EXCEPT !.kind = "null"]

\* `const data = await resp.json(); return { type: data.type, name: data.name }`
\* inside the try of fetchChannelInfo: an unparsable body and a null body throw
\* and become null
ChannelInfoOfJson(json) ==
    IF json.kind = "object"
    THEN [NoJson EXCEPT !.kind = "object", !.type = json.type, !.name = json.name]
    ELSE NullInfo

\* `const result = await resp.json(); return { ok: true, messageId: result?.message?.id }`
\* TRUE when resp.json() rejects
SendJsonThrows(json) == json.kind = "unparsable"

SendResultOfJson(json) == [NoJson EXCEPT !.kind = "object", !.id = json.id]

\* the call record of a call that has thrown / returned before any await
CallThrown(c, kind) == [c EXCEPT !.pc = "thrown", !.err = Thrown(kind)]
CallReturned(c, ret) == [c EXCEPT !.pc = "returned", !.ret = ret]

NewCall(op, owner, bh, target) ==
    [NoCall EXCEPT !.op = op, !.owner = owner, !.bh = bh, !.target = target]

\* hubFetch up to its first `await fetch`: `bh.hubUrl!.replace(...)` throws a
\* TypeError when hubUrl is undefined
EnterHubFetch(c, init) ==
    IF ~Truthy(c.bh.hubUrl)
    THEN CallThrown(c, "type_error")
    ELSE [c EXCEPT !.pc = "issue", !.transport = "http", !.init = init,
                   !.headers = HubFetchHeaders(c.bh, init)]

\* the connection primitive is invoked on the live handle
EnterSdk(c) == [c EXCEPT !.pc = "sdkwait", !.transport = "sdk"]

\* BeginDirect that never looks at the connection handle
BeginDirect_AlwaysHttp(v, h, owner, bh, to) ==
    LET c == NewCall("direct", owner, bh, to)
    IN  IF v # "sdk" /\ NotConfigured(bh) THEN CallThrown(c, "config")
        ELSE EnterHubFetch(c, PostInit)

\* sendToBotsHub / sendToHxaConnect up to the first await, in build v with
\* connection handle h
BeginDirect(v, h, owner, bh, to) ==
    LET c == NewCall("direct", owner, bh, to)
    IN  IF v = "sdk"
        THEN IF h # 0 THEN EnterSdk(c) ELSE EnterHubFetch(c, PostInit)
        ELSE IF NotConfigured(bh) THEN CallThrown(c, "config")
             ELSE EnterHubFetch(c, PostInit)

\* sendToChannel up to the first await, in build v with connection handle h
BeginChannel(v, h, owner, bh, channelId) ==
    LET c == NewCall("channel", owner, bh, channelId)
    IN  IF v = "sdk"
        THEN IF h # 0 THEN EnterSdk(c)
             ELSE IF ~assertSafeChannelId(channelId) THEN CallThrown(c, "invalid_channel")
             ELSE EnterHubFetch(c, PostInit)
        ELSE IF NotConfigured(bh) THEN CallThrown(c, "config")
             ELSE IF ~assertSafeChannelId(channelId) THEN CallThrown(c, "invalid_channel")
             ELSE EnterHubFetch(c, PostInit)

\* AfterHubFetchThrow with no try around the hubFetch of fetchChannelInfo
AfterHubFetchThrow_NoCatch(c, err) == [c EXCEPT !.pc = "thrown", !.err = err]

\* the call after hubFetch has thrown error err: fetchChannelInfo catches it
\* and returns null, the sends let it through
AfterHubFetchThrow(c, err) ==
    IF c.op = "lookup"
    THEN [c EXCEPT !.pc = "returned", !.ret = NullInfo, !.err = err]
    ELSE [c EXCEPT !.pc = "thrown", !.err = err]

\* the call after hubFetch has returned a response whose json() gives json
AfterHubFetchReturn(c, json) ==
    IF c.op = "lookup"
    THEN CallReturned(c, ChannelInfoOfJson(json))
    ELSE IF SendJsonThrows(json) THEN CallThrown(c, "json")
    ELSE CallReturned(c, SendResultOfJson(json))

\* fetchChannelInfo (webhook-only builds) up to the first await: the
\* assertion is outside the try, the TypeError of hubFetch inside it
BeginFetchChannelInfo(owner, bh, channelId) ==
    LET c == NewCall("lookup", owner, bh, channelId)
    IN  IF ~assertSafeChannelId(channelId) THEN CallThrown(c, "invalid_channel")
        ELSE LET e == EnterHubFetch(c, GetInit)
             IN  IF e.pc = "thrown" THEN AfterHubFetchThrow(c, e.err) ELSE e

\* `sdkClient.getChannel(channel_id)` of the SDK build
BeginGetChannel(owner, bh, channelId) ==
    EnterSdk(NewCall("lookup", owner, bh, channelId))

\* `await fetch(url, { ...init, headers })` is issued
FetchIssue ==
    /\ call.pc = "issue"
    /\ call' = [call EXCEPT !.pc = "inflight", !.issued = @ + 1]
    /\ obs' = [obs EXCEPT !.http = @ \cup {<<call.op, call.target>>}]
    /\ UNCHANGED <<variant, sdkClient, conns, stopFns, gateway, accountStatus, peer, req>>

\* Retrying that goes round the loop without awaiting the timer
Retrying_NoWait(c, delayMs) == [c EXCEPT !.pc = "issue", !.attempt = @ + 1]

\* the 429 branch with retries left: hubFetch awaits the timer of delayMs
Retrying(c, delayMs) == [c EXCEPT !.pc = "delay", !.delayMs = delayMs]

\* the fetch settles and hubFetch takes its turn on the outcome
FetchSettle(o) ==
    /\ call.pc = "inflight"
    /\ o \in FetchOutcomes(call.op)
    /\ LET step == HubFetchStep(variant, call.attempt, o)
           c == [call EXCEPT !.resp = o, !.settled = @ + 1]
       IN  call' = CASE step.tag = "retry" -> Retrying(c, step.delayMs)
                     [] step.tag = "return" -> AfterHubFetchReturn(c, o.json)
                     [] OTHER -> AfterHubFetchThrow(c, step.err)
    /\ UNCHANGED <<variant, sdkClient, conns, stopFns, gateway, accountStatus, peer, req, obs>>

\* `await new Promise((r) => setTimeout(r, delayMs)); continue`: the timer has
\* fired, attempt++ and the loop test `attempt <= MAX_SEND_RETRIES`; when the
\* test fails the throw after the loop is reached
DelayElapse ==
    /\ call.pc = "delay"
    /\ LET c == [call EXCEPT !.attempt = @ + 1, !.waited = Append(@, call.delayMs)]
       IN  call' = IF c.attempt <= HubFetchRetries(variant)
                   THEN [c EXCEPT !.pc = "issue"]
                   ELSE AfterHubFetchThrow(c, Thrown("exhausted"))
    /\ UNCHANGED <<variant, sdkClient, conns, stopFns, gateway, accountStatus, peer, req, obs>>

\* the awaited connection primitive settles
SdkSettle(o) ==
    /\ call.pc = "sdkwait"
    /\ o \in SdkOutcomes(call.op)
    /\ LET c == [call EXCEPT !.sdkRet = o]
       IN  call' = IF o.kind = "throw"
                   THEN [c EXCEPT !.pc = "thrown", !.err = Thrown("sdk")]
                   ELSE IF call.op = "lookup" THEN CallReturned(c, o)
                   ELSE CallReturned(c, SendResultOfJson(o))
    /\ UNCHANGED <<variant, sdkClient, conns, stopFns, gateway, accountStatus, peer, req, obs>>

(***************************************************************************)
(* Inbound envelope normalizer.                                            *)
(***************************************************************************)
\* IsV1 with `==` in place of `===`
IsV1_Loose(f) == f.webhook_version \in {"1", Num1}

\* `body.webhook_version === '1'`
IsV1(f) == f.webhook_version = "1"

\* NormalizeV1 that starts from the group default before any lookup
NormalizeV1_DefaultGroup(f) ==
    [NoNorm EXCEPT !.channel_id = f.channel_id,
                   !.sender_name = f.sender_name,
                   !.sender_id = f.message.sender_id,
                   !.content = f.message.content,
                   !.message_id = f.message.id,
                   !.chat_type = "group"]

\* the assignments of the v1 branch before the lookup
NormalizeV1(f) ==
    [NoNorm EXCEPT !.channel_id = f.channel_id,
                   !.sender_name = f.sender_name,
                   !.sender_id = f.message.sender_id,
                   !.content = f.message.content,
                   !.message_id = f.message.id]

\* NormalizeLegacy reading the message id and the sender id as the v1 branch does
NormalizeLegacy_ReadsNested(f) ==
    [channel_id |-> f.channel_id, sender_name |-> f.sender_name,
     sender_id |-> f.message.sender_id, content |-> f.content,
     message_id |-> f.message.id, chat_type |-> f.chat_type,
     group_name |-> f.group_name]

\* the assignments of the legacy branch
NormalizeLegacy(f) ==
    [channel_id |-> f.channel_id, sender_name |-> f.sender_name,
     sender_id |-> f.sender_id, content |-> f.content,
     message_id |-> f.message_id, chat_type |-> f.chat_type,
     group_name |-> f.group_name]

Normalize(f) == IF IsV1(f) THEN NormalizeV1(f) ELSE NormalizeLegacy(f)

\* WantsLookup that puts the validation before the lookup: no lookup is made
WantsLookup_Never(f) == FALSE

\* `if (channel_id)` of the v1 branch
WantsLookup(f) == IsV1(f) /\ Truthy(f.channel_id)

\* ApplyChannelInfo taking the default whatever the lookup returned
ApplyChannelInfo_AlwaysDefault(n, info) ==
    [n EXCEPT !.chat_type = "group", !.group_name = Undef]

\* the v1 branch after `await fetchChannelInfo(bh, channel_id)` returned info
\* (webhook-only builds)
ApplyChannelInfo(n, info) ==
    IF info.kind = "object"
    THEN [n EXCEPT !.chat_type = info.type, !.group_name = Coalesce(info.name, Undef)]
    ELSE [n EXCEPT !.chat_type = "group", !.group_name = Undef]

\* the v1 branch of the SDK build after `await sdkClient.getChannel(channel_id)`
\* resolved with channel: `chat_type = channel?.type; group_name = channel?.name`
ApplyGetChannel(n, channel) ==
    IF channel.kind = "object"
    THEN [n EXCEPT !.chat_type = channel.type, !.group_name = channel.name]
    ELSE [n EXCEPT !.chat_type = Undef, !.group_name = Undef]

\* the v1 branch of the SDK build when getChannel threw, or with no handle
ApplyNoChannel(n) == [n EXCEPT !.chat_type = "group"]

\* `!content || !sender_name`
MissingRequired(n) == ~Truthy(n.content) \/ ~Truthy(n.sender_name)

\* IsGroup that takes everything but "direct" for a group
IsGroup_NotDirect(chat_type) == chat_type # "direct"

\* `chat_type === "group"`
IsGroup(chat_type) == chat_type = "group"

\* the fields of finalizeInboundContext that depend on the message
BuildCtx(n, isGroup) ==
    [ChatType |-> IF isGroup THEN "group" ELSE "direct",
     GroupSubject |-> IF isGroup THEN OrElse(n.group_name, n.channel_id) ELSE Undef,
     SenderName |-> n.sender_name,
     SenderId |-> OrElse(n.sender_id, n.sender_name),
     RawBody |-> n.content,
     MessageSid |-> OrElse(n.message_id, "generated")]

\* `const replyChannelId = isGroup ? channel_id : undefined`
ReplyChannelId(isGroup, channel_id) == IF isGroup THEN channel_id ELSE Undef

(***************************************************************************)
(* Reply relay: the text of a reply payload.                               *)
(***************************************************************************)
\* str is String(payload)
ReplyPayloads ==
    { [NoPayload EXCEPT !.kind = "string", !.s = "hello"],
      [NoPayload EXCEPT !.kind = "string", !.s = "   "],
      [NoPayload EXCEPT !.kind = "string", !.s = ""],
      [NoPayload EXCEPT !.kind = "object", !.text = "from-text", !.body = "from-body",
                        !.str = "[object Object]"],
      [NoPayload EXCEPT !.kind = "object", !.body = "from-body", !.str = "[object Object]"],
      [NoPayload EXCEPT !.kind = "object", !.text = "", !.body = "from-body",
                        !.str = "[object Object]"],
      [NoPayload EXCEPT !.kind = "other", !.str = "42"] }

\* `typeof payload === "string" ? payload : payload?.text ?? payload?.body ?? String(payload)`
ReplyText(p) ==
    IF p.kind = "string" THEN p.s
    ELSE Coalesce(p.text, Coalesce(p.body, p.str))

\* Trim that leaves white space in place
Trim_Identity(s) == s

\* String.prototype.trim on the strings of the model
Trim(s) == IF s = "   " THEN "" ELSE s

\* `!text?.trim()`
IsBlank(text) == ~Truthy(Trim(text))

(***************************************************************************)
(* Inbound webhook handler.                                                *)
(***************************************************************************)
\* res.writeHead(status, ...); res.end(...)
Respond(o, status) == [o EXCEPT !.response = status, !.responses = @ + 1]

\* the connection primitive invoked when call c was begun, if any
ObsBegin(o, c) ==
    IF c.transport = "sdk" THEN [o EXCEPT !.sdk = @ \cup {<<c.op, c.target>>}] ELSE o

\* AfterNormalize that writes the 200 without awaiting the host's dispatch
AfterNormalize_RespondsFirst(r, o) ==
    IF MissingRequired(r.n)
    THEN [req |-> [r EXCEPT !.pc = "done"], obs |-> Respond(o, 400)]
    ELSE LET isGroup == IsGroup(r.n.chat_type)
         IN  [req |-> [r EXCEPT !.pc = "dispatch",
                                !.ctx = BuildCtx(r.n, isGroup),
                                !.isGroup = isGroup,
                                !.replyChannelId = ReplyChannelId(isGroup, r.n.channel_id),
                                !.replySenderName = r.n.sender_name],
              obs |-> Respond([o EXCEPT !.logged = TRUE, !.routed = TRUE], 200)]

\* from the validation to the start of the host's reply dispatch
AfterNormalize(r, o) ==
    IF MissingRequired(r.n)
    THEN [req |-> [r EXCEPT !.pc = "done"], obs |-> Respond(o, 400)]
    ELSE LET isGroup == IsGroup(r.n.chat_type)
         IN  [req |-> [r EXCEPT !.pc = "dispatch",
                                !.ctx = BuildCtx(r.n, isGroup),
                                !.isGroup = isGroup,
                                !.replyChannelId = ReplyChannelId(isGroup, r.n.channel_id),
                                !.replySenderName = r.n.sender_name],
              obs |-> [o EXCEPT !.logged = TRUE, !.routed = TRUE]]

\* the request arrives: loadConfig, then the secret check
WebhookReceive(bh, h) ==
    /\ req.pc \in {"idle", "done"}
    /\ call.op = "none"
    /\ call' = NoCall
    /\ IF SecretCheckPasses(bh, h)
       THEN /\ req' = [IdleReq EXCEPT !.pc = "parse", !.src = "webhook", !.bh = bh,
                          !.authHeader = IF Truthy(bh.webhookSecret) THEN h ELSE NoHeader]
            /\ obs' = NoObs
       ELSE /\ req' = [IdleReq EXCEPT !.pc = "done", !.src = "webhook", !.bh = bh,
                                       !.authHeader = h]
            /\ obs' = Respond(NoObs, 401)
    /\ UNCHANGED <<variant, sdkClient, conns, stopFns, gateway, accountStatus, peer>>

\* the body is parsed and normalized, up to the first await of the branch taken
WebhookParse(b) ==
    /\ req.pc = "parse"
    /\ UNCHANGED <<variant, sdkClient, conns, stopFns, gateway, accountStatus, peer>>
    /\ LET r == [req EXCEPT !.body = b, !.n = Normalize(b.f)]
           o == [obs EXCEPT !.parsed = TRUE]
       IN  CASE b.kind = "invalid_json" ->
                  \* JSON.parse throws
                  /\ req' = [req EXCEPT !.pc = "done", !.body = b]
                  /\ obs' = [obs EXCEPT !.threw = "json_parse"]
                  /\ call' = call
             [] b.kind = "null" ->
                  \* `body.webhook_version` of null throws a TypeError
                  /\ req' = [req EXCEPT !.pc = "done", !.body = b]
                  /\ obs' = [o EXCEPT !.threw = "type_error"]
                  /\ call' = call
             [] b.kind \in {"object", "scalar"} /\ ~WantsLookup(b.f) ->
                  /\ req' = AfterNormalize(r, o).req
                  /\ obs' = AfterNormalize(r, o).obs
                  /\ call' = call
             [] b.kind = "object" /\ WantsLookup(b.f) /\ variant = "sdk" /\ sdkClient = 0 ->
                  LET r2 == [r EXCEPT !.n = ApplyNoChannel(r.n)]
                  IN  /\ req' = AfterNormalize(r2, o).req
                      /\ obs' = AfterNormalize(r2, o).obs
                      /\ call' = call
             [] b.kind = "object" /\ WantsLookup(b.f) /\ variant = "sdk" /\ sdkClient # 0 ->
                  LET c == BeginGetChannel("webhook", req.bh, r.n.channel_id)
                  IN  /\ req' = [r EXCEPT !.pc = "lookup"]
                      /\ obs' = ObsBegin([o EXCEPT !.lookups = @ + 1,
                                                   !.lookupTarget = c.target], c)
                      /\ call' = c
             [] b.kind = "object" /\ WantsLookup(b.f) /\ variant # "sdk" ->
                  LET c == BeginFetchChannelInfo("webhook", req.bh, r.n.channel_id)
                  IN  /\ req' = [r EXCEPT !.pc = "lookup"]
                      /\ obs' = [o EXCEPT !.lookups = @ + 1, !.lookupTarget = c.target]
                      /\ call' = c

\* the awaited lookup has settled: the chat type is decided and the handler
\* runs on to the reply dispatch, to the 400, or ends by throwing
WebhookLookupDone ==
    /\ req.pc = "lookup"
    /\ req.src = "webhook"
    /\ call.pc \in {"returned", "thrown"}
    /\ call' = NoCall
    /\ UNCHANGED <<variant, sdkClient, conns, stopFns, gateway, accountStatus, peer>>
    /\ LET o == [obs EXCEPT !.lookupRet = IF call.pc = "thrown"
                                          THEN [NoJson EXCEPT !.kind = "throw"]
                                          ELSE call.ret]
       IN  IF variant = "sdk"
           THEN LET r == [req EXCEPT !.n = IF call.pc = "thrown"
                                           THEN ApplyNoChannel(req.n)
                                           ELSE ApplyGetChannel(req.n, call.ret)]
                IN  /\ req' = AfterNormalize(r, o).req
                    /\ obs' = AfterNormalize(r, o).obs
           ELSE IF call.pc = "thrown"
                THEN \* assertSafeChannelId threw outside the try of fetchChannelInfo
                     /\ req' = [req EXCEPT !.pc = "done"]
                     /\ obs' = [o EXCEPT !.threw = call.err.kind]
                ELSE LET r == [req EXCEPT !.n = ApplyChannelInfo(req.n, call.ret)]
                     IN  /\ req' = AfterNormalize(r, o).req
                         /\ obs' = AfterNormalize(r, o).obs

(***************************************************************************)
(* Reply relay: the deliver callback, invoked by the host's dispatcher.    *)
(***************************************************************************)
\* the send deliver chooses
BeginReply(v, h, bh, replyChannelId, replySenderName) ==
    IF Truthy(replyChannelId)
    THEN BeginChannel(v, h, "webhook", bh, replyChannelId)
    ELSE BeginDirect(v, h, "webhook", bh, replySenderName)

\* DeliverClosure reading the locals of whichever request was accepted besides
\* this one, as if they were kept in variables of the module
DeliverClosure_Shared(own, other) == other

\* what the deliver closure of a request reads: cfg, replyChannelId and
\* replySenderName are constants of the handler's own invocation, whatever
\* other request is being handled
DeliverClosure(own, other) == own

\* deliver(payload) up to its first await
Deliver(payload) ==
    /\ req.pc = "dispatch"
    /\ req.chunks < MaxChunks
    /\ payload \in ReplyPayloads
    /\ UNCHANGED <<variant, sdkClient, conns, stopFns, gateway, accountStatus, peer>>
    /\ IF IsBlank(ReplyText(payload))
       THEN /\ req' = [InDispatch(req) EXCEPT !.chunks = @ + 1, !.payload = payload]
            /\ UNCHANGED <<call, obs>>
       ELSE LET r == DeliverClosure(req, peer.r)
                c == BeginReply(variant, sdkClient, r.bh,
                                r.replyChannelId, r.replySenderName)
            IN  /\ req' = [InDispatch(req) EXCEPT !.pc = "deliver", !.payload = payload]
                /\ call' = c
                /\ obs' = ObsBegin([obs EXCEPT !.sends = @ \cup {<<c.op, c.target>>}], c)

\* DeliverCaught with no try around the send
DeliverCaught_Rethrows(o) == [o EXCEPT !.threw = "reply"]

\* the catch of deliver: console.error, and deliver returns normally
DeliverCaught(o) == [o EXCEPT !.replyErrors = @ + 1]

\* the awaited send has settled; a throw is caught and logged by deliver
DeliverDone ==
    /\ req.pc = "deliver"
    /\ call.pc \in {"returned", "thrown"}
    /\ req' = [req EXCEPT !.pc = "dispatch", !.chunks = @ + 1, !.payload = NoPayload]
    /\ obs' = IF call.pc = "thrown" THEN DeliverCaught(obs) ELSE obs
    /\ call' = NoCall
    /\ UNCHANGED <<variant, sdkClient, conns, stopFns, gateway, accountStatus, peer>>

\* the host's dispatch resolves and the handler writes its 200
WebhookRespondOk ==
    /\ req.pc = "dispatch"
    /\ req.src = "webhook"
    /\ req' = [InDispatch(req) EXCEPT !.pc = "done", !.payload = NoPayload]
    /\ obs' = Respond([obs EXCEPT !.dispatchDone = TRUE], 200)
    /\ UNCHANGED <<variant, sdkClient, conns, stopFns, gateway, accountStatus, peer, call>>

(***************************************************************************)
(* A second webhook request, handled while the first is in hand.  Its      *)
(* handler runs the same code on its own locals; its sends are followed    *)
(* up to the choice of the send and its target.                            *)
(***************************************************************************)
\* the handler of the second request from its receipt to the start of the
\* host's dispatch, for a flat body: no await lies between them but readBody
PeerAccept(bh, b) ==
    /\ peer.r.pc \in {"idle", "done"}
    /\ b.kind = "object"
    /\ ~WantsLookup(b.f)
    /\ SecretCheckPasses(bh, NoHeader)
    /\ LET r == [IdleReq EXCEPT !.src = "webhook", !.bh = bh, !.body = b,
                                !.n = Normalize(b.f)]
       IN  peer' = [r |-> InDispatch(AfterNormalize(r, NoObs).req), sends |-> {}]
    /\ UNCHANGED <<variant, sdkClient, conns, stopFns, gateway, accountStatus, req, call, obs>>

\* deliver(payload) of the second request up to its first await
PeerDeliver(payload) ==
    /\ peer.r.pc = "dispatch"
    /\ peer.r.chunks < MaxChunks
    /\ payload \in ReplyPayloads
    /\ IF IsBlank(ReplyText(payload))
       THEN peer' = [peer EXCEPT !.r.chunks = @ + 1]
       ELSE LET r == DeliverClosure(peer.r, req)
                c == BeginReply(variant, sdkClient, r.bh,
                                r.replyChannelId, r.replySenderName)
            IN  peer' = [peer EXCEPT !.r.chunks = @ + 1,
                                     !.sends = @ \cup {<<c.op, c.target>>}]
    /\ UNCHANGED <<variant, sdkClient, conns, stopFns, gateway, accountStatus, req, call, obs>>

\* the host's dispatch of the second request resolves and its 200 is written
PeerRespondOk ==
    /\ peer.r.pc = "dispatch"
    /\ peer' = [peer EXCEPT !.r.pc = "done"]
    /\ UNCHANGED <<variant, sdkClient, conns, stopFns, gateway, accountStatus, req, call, obs>>

(***************************************************************************)
(* fetchChannelInfo called twice over (webhook-only builds), against a hub *)
(* that gives one and the same answer to every GET of the channel.         *)
(***************************************************************************)
\* what a call of fetchChannelInfo has given: its return value, or a throw
LookupResult(c) ==
    IF c.pc = "thrown" THEN [NoJson EXCEPT !.kind = "throw"] ELSE c.ret

\* fetchChannelInfo(bh, channelId) up to its first await; hub is the answer
\* of the hub to a GET of this channel
FetchChannelInfoCall(bh, channelId, hub) ==
    /\ variant # "sdk"
    /\ req.pc \in {"idle", "done"}
    /\ call.op = "none"
    /\ hub \in FetchOutcomes("lookup")
    /\ req' = [IdleReq EXCEPT !.pc = "lookup", !.src = "lookup", !.bh = bh]
    /\ call' = BeginFetchChannelInfo("lookup", bh, channelId)
    /\ obs' = [NoObs EXCEPT !.lookups = 1, !.lookupTarget = channelId, !.hub = hub]
    /\ UNCHANGED <<variant, sdkClient, conns, stopFns, gateway, accountStatus, peer>>

\* the fetch of a lookup settles with the answer of the hub
FetchSettleStable ==
    /\ req.src = "lookup"
    /\ FetchSettle(obs.hub)

\* the first call has ended and the same call is made again
FetchChannelInfoAgain ==
    /\ req.src = "lookup"
    /\ req.pc = "lookup"
    /\ obs.lookups = 1
    /\ call.pc \in {"returned", "thrown"}
    /\ obs' = [obs EXCEPT !.lookups = 2, !.lookupRet = LookupResult(call)]
    /\ call' = BeginFetchChannelInfo("lookup", req.bh, obs.lookupTarget)
    /\ UNCHANGED <<variant, sdkClient, conns, stopFns, gateway, accountStatus, peer, req>>

\* the second call has ended
FetchChannelInfoEnd ==
    /\ req.src = "lookup"
    /\ req.pc = "lookup"
    /\ obs.lookups = 2
    /\ call.pc \in {"returned", "thrown"}
    /\ obs' = [obs EXCEPT !.lookupAgain = LookupResult(call)]
    /\ req' = [req EXCEPT !.pc = "done"]
    /\ call' = NoCall
    /\ UNCHANGED <<variant, sdkClient, conns, stopFns, gateway, accountStatus, peer>>

(***************************************************************************)
(* outbound.sendText, called by the host outside any inbound request.      *)
(***************************************************************************)
\* isChannelId with the length test left out
isChannelId_PatternOnly(to) == CHANNEL_ID_RE(to)

\* const isChannelId = CHANNEL_ID_RE.test(params.to) && params.to.length > 20
isChannelId(to) == CHANNEL_ID_RE(to) /\ StrInfo[to].len > 20

\* the values of params.to: short and long names and ids, with and without
\* characters outside the pattern
SendTextTargets == DOMAIN StrInfo

\* sendText(params) up to the first await of the send it chooses; the host
\* calls it while no inbound request is being handled
SendText(bh, to) ==
    /\ req.pc \in {"idle", "done"}
    /\ call.op = "none"
    /\ to \in SendTextTargets
    /\ LET c == IF isChannelId(to)
                THEN BeginChannel(variant, sdkClient, "host", bh, to)
                ELSE BeginDirect(variant, sdkClient, "host", bh, to)
       IN  /\ call' = c
           /\ obs' = ObsBegin([NoObs EXCEPT !.sends = {<<c.op, c.target>>}], c)
    /\ req' = [IdleReq EXCEPT !.pc = "sendText", !.src = "host", !.bh = bh]
    /\ UNCHANGED <<variant, sdkClient, conns, stopFns, gateway, accountStatus, peer>>

\* the send has settled: sendText returns {channel, ...result} or lets the
\* error through to the host
SendTextDone ==
    /\ req.pc = "sendText"
    /\ call.pc \in {"returned", "thrown"}
    /\ req' = [req EXCEPT !.pc = "done"]
    /\ obs' = IF call.pc = "thrown" THEN [obs EXCEPT !.threw = "sendText"] ELSE obs
    /\ call' = NoCall
    /\ UNCHANGED <<variant, sdkClient, conns, stopFns, gateway, accountStatus, peer>>

(***************************************************************************)
(* Inbound `message` events of the persistent connection (SDK build).      *)
(***************************************************************************)
\* the events a connection object emits: {channel_id, sender_name, sender_id,
\* message: {content, id}}
Events ==
    { [NoFields EXCEPT !.channel_id = c, !.sender_name = s, !.sender_id = "u7",
                       !.message = [sender_id |-> Undef, content |-> x, id |-> "m1"]] :
        c \in {Undef, "c1"}, s \in {Undef, "bob"}, x \in {Undef, "hi"} }

\* resolveHxaConnectConfig applied to what handleSdkMessage passes on as cfg:
\* the channel configuration startAccount resolved, which has no `channels`
\* key, so `cfg?.channels?.['hxa-connect'] ?? {}` is the empty object
ResolveOfChannelConfig == NoConfig

\* the destructuring of handleSdkMessage and `let chat_type = 'direct'`
NormalizeEvent(f) ==
    [NoNorm EXCEPT !.channel_id = f.channel_id,
                   !.sender_name = f.sender_name,
                   !.sender_id = f.sender_id,
                   !.content = f.message.content,
                   !.message_id = f.message.id,
                   !.chat_type = "direct"]

\* `chat_type = channel?.type || 'direct'; group_name = channel?.name`
ApplyEventChannel(n, channel) ==
    IF channel.kind = "object"
    THEN [n EXCEPT !.chat_type = OrElse(channel.type, "direct"),
                   !.group_name = channel.name]
    ELSE [n EXCEPT !.chat_type = "direct", !.group_name = Undef]

\* the call of dispatchInboundMessage by handleSdkMessage
DispatchEvent(r, o) ==
    LET isGroup == IsGroup(r.n.chat_type)
    IN  [req |-> [r EXCEPT !.pc = "dispatch",
                           !.ctx = BuildCtx(r.n, isGroup),
                           !.isGroup = isGroup,
                           !.replyChannelId = ReplyChannelId(isGroup, r.n.channel_id),
                           !.replySenderName = r.n.sender_name],
         obs |-> [o EXCEPT !.logged = TRUE, !.routed = TRUE]]

\* connection object i emits `message` and its handler runs handleSdkMessage
\* up to its first await; an object whose connect() failed keeps its handlers
\* and is never disconnected, so it may emit too
SdkMessage(i, ev) ==
    /\ variant = "sdk"
    /\ i \in 1..Len(conns)
    /\ conns[i].state \in {"connecting", "connected", "failed"}
    /\ "message" \in conns[i].handlers
    /\ req.pc \in {"idle", "done"}
    /\ call.op = "none"
    /\ UNCHANGED <<variant, sdkClient, conns, stopFns, gateway, accountStatus, peer>>
    /\ LET r == [IdleReq EXCEPT !.src = "event", !.conn = i,
                                !.bh = ResolveOfChannelConfig,
                                !.body = [kind |-> "event", f |-> ev],
                                !.n = NormalizeEvent(ev)]
       IN  IF MissingRequired(r.n)
           THEN /\ req' = [r EXCEPT !.pc = "done"]
                /\ obs' = NoObs
                /\ call' = NoCall
           ELSE IF Truthy(r.n.channel_id) /\ sdkClient # 0
           THEN LET c == BeginGetChannel("event", r.bh, r.n.channel_id)
                IN  /\ req' = [r EXCEPT !.pc = "lookup"]
                    /\ obs' = ObsBegin([NoObs EXCEPT !.logged = TRUE, !.lookups = 1,
                                                     !.lookupTarget = c.target], c)
                    /\ call' = c
           ELSE /\ req' = DispatchEvent(r, NoObs).req
                /\ obs' = DispatchEvent(r, NoObs).obs
                /\ call' = NoCall

\* the getChannel of handleSdkMessage has settled; a throw is caught and leaves
\* the chat type 'direct'
SdkMessageLookupDone ==
    /\ req.pc = "lookup"
    /\ req.src = "event"
    /\ call.pc \in {"returned", "thrown"}
    /\ call' = NoCall
    /\ UNCHANGED <<variant, sdkClient, conns, stopFns, gateway, accountStatus, peer>>
    /\ LET o == [obs EXCEPT !.lookupRet = IF call.pc = "thrown"
                                          THEN [NoJson EXCEPT !.kind = "throw"]
                                          ELSE call.ret]
           r == IF call.pc = "thrown" THEN req
                ELSE [req EXCEPT !.n = ApplyEventChannel(req.n, call.ret)]
       IN  /\ req' = DispatchEvent(r, o).req
           /\ obs' = DispatchEvent(r, o).obs

\* the host's dispatch resolves and handleSdkMessage returns
SdkMessageDone ==
    /\ req.pc = "dispatch"
    /\ req.src = "event"
    /\ req' = [InDispatch(req) EXCEPT !.pc = "done", !.payload = NoPayload]
    /\ obs' = [obs EXCEPT !.dispatchDone = TRUE]
    /\ UNCHANGED <<variant, sdkClient, conns, stopFns, gateway, accountStatus, peer, call>>

(***************************************************************************)
(* Specification.                                                          *)
(***************************************************************************)
\* the replies of the webhook side: one with text and one blank
SpecPayloads ==
    { [NoPayload EXCEPT !.kind = "string", !.s = "hello"],
      [NoPayload EXCEPT !.kind = "string", !.s = "   "] }

\* The webhook side: every request, body, reply and hub answer, with the
\* connection started in the default mode from a complete configuration.
Next ==
    \/ \E bh \in {c \in Configs : ~NotConfigured(c)} : StartBegin(bh, Undef, TRUE)
    \/ \E connectOk \in BOOLEAN : ConnectSettle(connectOk)
    \/ Stop
    \/ \E bh \in Configs, h \in AuthHeaders : WebhookReceive(bh, h)
    \/ \E b \in Bodies : WebhookParse(b)
    \/ WebhookLookupDone
    \/ FetchIssue
    \/ \E o \in FetchOutcomes(call.op) : FetchSettle(o)
    \/ DelayElapse
    \/ \E o \in SdkOutcomes(call.op) : SdkSettle(o)
    \/ \E payload \in SpecPayloads : Deliver(payload)
    \/ DeliverDone
    \/ WebhookRespondOk

Spec == Init /\ [][Next]_vars

\* The connection side: the SDK build with every mode, configuration and
\* outcome of startAccount, stop, the `message` events of the connection
\* objects, and webhook requests and hub answers of a few kinds.
InitGateway == Init /\ variant = "sdk"

GatewayConfig ==
    [hubUrl |-> "https://hub", agentToken |-> "tok", orgId |-> Undef, webhookSecret |-> Undef]

GatewayBodies ==
    { [kind |-> "object", f |-> b] :
        b \in { [NoFields EXCEPT !.sender_name = "bob", !.content = "hi"],
                [NoFields EXCEPT !.webhook_version = "1", !.channel_id = "c1",
                                 !.sender_name = "bob",
                                 !.message = [sender_id |-> "u7", content |-> "hi",
                                              id |-> "m1"]] } }

GatewayPayloads == { [NoPayload EXCEPT !.kind = "string", !.s = "hello"] }

GatewayFetchOutcomes ==
    { [kind |-> "resp", status |-> 200, retryAfter |-> Null,
       json |-> [NoJson EXCEPT !.kind = "object", !.id = "h1"], textOk |-> TRUE],
      [kind |-> "resp", status |-> 500, retryAfter |-> Null, json |-> NoJson,
       textOk |-> TRUE] }

NextGateway ==
    \/ \E bh \in Configs, mode \in Modes, importOk \in BOOLEAN :
          StartBegin(bh, mode, importOk)
    \/ \E connectOk \in BOOLEAN : ConnectSettle(connectOk)
    \/ Stop
    \/ \E i \in 1..MaxConns, ev \in Events : SdkMessage(i, ev)
    \/ SdkMessageLookupDone
    \/ SdkMessageDone
    \/ WebhookReceive(GatewayConfig, NoHeader)
    \/ \E b \in GatewayBodies : WebhookParse(b)
    \/ WebhookLookupDone
    \/ FetchIssue
    \/ \E o \in GatewayFetchOutcomes : FetchSettle(o)
    \/ \E o \in SdkOutcomes(call.op) : SdkSettle(o)
    \/ \E payload \in GatewayPayloads : Deliver(payload)
    \/ DeliverDone
    \/ WebhookRespondOk

SpecGateway == InitGateway /\ [][NextGateway]_vars

\* The reply relay: every reply payload, in the three builds, for a few
\* webhook requests and hub answers, with the connection live or not.
RelayBodies ==
    GatewayBodies
    \cup { [kind |-> "object",
            f |-> [NoFields EXCEPT !.channel_id = "c1", !.chat_type = "group",
                                   !.sender_name = "bob", !.content = "hi"]] }

RelayFetchOutcomes ==
    GatewayFetchOutcomes
    \cup { [kind |-> "resp", status |-> 429, retryAfter |-> Null, json |-> NoJson,
            textOk |-> TRUE],
           NetworkError }

\* each fetch is answered and each timer fires
FetchFairness ==
    /\ WF_vars(FetchIssue)
    /\ WF_vars(\E o \in RelayFetchOutcomes : FetchSettle(o))
    /\ WF_vars(DelayElapse)

NextRelay ==
    \/ StartBegin(GatewayConfig, Undef, TRUE)
    \/ ConnectSettle(TRUE)
    \/ Stop
    \/ \E bh \in {c \in Configs : c.webhookSecret = Undef} : WebhookReceive(bh, NoHeader)
    \/ \E b \in RelayBodies : WebhookParse(b)
    \/ WebhookLookupDone
    \/ FetchIssue
    \/ \E o \in RelayFetchOutcomes : FetchSettle(o)
    \/ DelayElapse
    \/ \E o \in SdkOutcomes(call.op) : SdkSettle(o)
    \/ \E payload \in ReplyPayloads : Deliver(payload)
    \/ DeliverDone
    \/ WebhookRespondOk
    \/ \E bh \in {GatewayConfig, NoConfig}, to \in SendTextTargets : SendText(bh, to)
    \/ SendTextDone

SpecRelay == Init /\ [][NextRelay]_vars

\* the same steps, with every awaited fetch and timer completing
SpecRelayFair == SpecRelay /\ FetchFairness

\* The life of the connection objects: the SDK build with every mode of
\* startAccount, stop, the `close` and `message` events of the connection
\* objects, and the sends of the host and of the replies.
LifecycleEvents ==
    { [NoFields EXCEPT !.channel_id = c, !.sender_name = "bob", !.sender_id = "u7",
                       !.message = [sender_id |-> Undef, content |-> "hi", id |-> "m1"]] :
        c \in {Undef, "c1"} }

NextLifecycle ==
    \/ \E mode \in Modes : StartBegin(GatewayConfig, mode, TRUE)
    \/ \E connectOk \in BOOLEAN : ConnectSettle(connectOk)
    \/ Stop
    \/ \E i \in 1..MaxConns : Close(i)
    \/ \E i \in 1..MaxConns, ev \in LifecycleEvents : SdkMessage(i, ev)
    \/ SdkMessageLookupDone
    \/ SdkMessageDone
    \/ \E to \in {"bob", "averyveryverylongname"} : SendText(GatewayConfig, to)
    \/ SendTextDone
    \/ FetchIssue
    \/ \E o \in GatewayFetchOutcomes : FetchSettle(o)
    \/ \E o \in SdkOutcomes(call.op) : SdkSettle(o)
    \/ \E payload \in GatewayPayloads : Deliver(payload)
    \/ DeliverDone

SpecLifecycle == InitGateway /\ [][NextLifecycle]_vars

\* Two requests at once: the first as in the reply relay, the second with a
\* sender and a channel of its own, around a shared connection handle.
ConcurrentBodies ==
    { [kind |-> "object", f |-> b] :
        b \in { [NoFields EXCEPT !.sender_name = "bob", !.content = "hi"],
                [NoFields EXCEPT !.channel_id = "c1", !.chat_type = "group",
                                 !.sender_name = "bob", !.content = "hi"],
                [NoFields EXCEPT !.webhook_version = "1", !.channel_id = "c1",
                                 !.sender_name = "bob",
                                 !.message = [sender_id |-> "u7", content |-> "hi",
                                              id |-> "m1"]] } }

PeerBodies ==
    { [kind |-> "object",
       f |-> [NoFields EXCEPT !.channel_id = "c2", !.chat_type = t,
                              !.sender_name = "amy", !.content = x]] :
        t \in {"direct", "group"}, x \in {Undef, "yo"} }

NextConcurrent ==
    \/ StartBegin(GatewayConfig, Undef, TRUE)
    \/ ConnectSettle(TRUE)
    \/ Stop
    \/ WebhookReceive(GatewayConfig, NoHeader)
    \/ \E b \in ConcurrentBodies : WebhookParse(b)
    \/ WebhookLookupDone
    \/ FetchIssue
    \/ \E o \in GatewayFetchOutcomes : FetchSettle(o)
    \/ \E o \in SdkOutcomes(call.op) : SdkSettle(o)
    \/ \E payload \in GatewayPayloads : Deliver(payload)
    \/ DeliverDone
    \/ WebhookRespondOk
    \/ \E b \in PeerBodies : PeerAccept(GatewayConfig, b)
    \/ \E payload \in SpecPayloads : PeerDeliver(payload)
    \/ PeerRespondOk

SpecConcurrent == Init /\ [][NextConcurrent]_vars

\* fetchChannelInfo on its own: every configuration, channel id and answer of
\* the hub, in the two builds that have it.
InitLookup == Init /\ variant # "sdk"

NextLookup ==
    \/ \E bh \in Configs, channelId \in {"c1", "../x", "longid65"},
          hub \in FetchOutcomes("lookup") : FetchChannelInfoCall(bh, channelId, hub)
    \/ FetchIssue
    \/ FetchSettleStable
    \/ DelayElapse
    \/ FetchChannelInfoAgain
    \/ FetchChannelInfoEnd

SpecLookup == InitLookup /\ [][NextLookup]_vars

(***************************************************************************)
(* Properties.                                                             *)
(***************************************************************************)
\* the request in hand is just past normalization: the handler has started the
\* host's reply dispatch and the host has not yet acted on it
JustDispatched == req.pc = "dispatch" /\ req.body.kind = "object"

\* the lookup of the request in hand has failed: it returned null or threw
LookupFailed == obs.lookupRet.kind \in {"null", "throw"}

\* C1: a v1 webhook request with a channel_id whose channel-type lookup fails
\* (null or throw) is dispatched with isGroup = TRUE, and every reply it sends
\* is a channel send to that channel_id, never a direct send.
C1_FailedLookupRoutesToChannel ==
    (obs.lookups > 0 /\ LookupFailed /\ obs.routed)
        => /\ req.isGroup
           /\ \A send \in obs.sends : send = <<"channel", obs.lookupTarget>>

\* C2: a v1 webhook request with a channel_id is dispatched to the host only
\* after a channel-info lookup has been issued, in every build and with the
\* connection handle live or null.
C2_LookupBeforeDispatch ==
    (JustDispatched /\ WantsLookup(req.body.f)) => obs.lookups > 0

\* C3: when the lookup of a v1 request succeeds with {type, name}, the message
\* carries that type and name; type "direct" gives isGroup = FALSE, with sender
\* name and content from the payload and replies sent directly to sender_name;
\* type "group" gives isGroup = TRUE and replies sent to the channel.
C3_SuccessfulLookupDecidesRouting ==
    LET info == obs.lookupRet
    IN  (obs.routed /\ info.kind = "object")
        => /\ JustDispatched
              => /\ req.n.chat_type = info.type
                 /\ req.n.group_name = Coalesce(info.name, Undef)
                 /\ req.ctx.SenderName = req.body.f.sender_name
                 /\ req.ctx.RawBody = req.body.f.message.content
                 /\ req.replySenderName = req.body.f.sender_name
                 /\ req.n.channel_id = obs.lookupTarget
           /\ info.type = "direct"
              => /\ ~req.isGroup
                 /\ \A send \in obs.sends : send = <<"direct", req.replySenderName>>
           /\ info.type = "group"
              => /\ req.isGroup
                 /\ \A send \in obs.sends : send = <<"channel", obs.lookupTarget>>

\* a direct lookup result, a dispatched direct message and its reply sent to bob
C3_Witness ==
    /\ obs.lookupRet.kind = "object"
    /\ obs.lookupRet.type = "direct"
    /\ obs.sends = {<<"direct", "bob">>}
    /\ obs.response = 200

\* C4: a legacy payload with non-empty content and sender_name is normalized
\* successfully, its seven fields are the top-level fields unchanged, and no
\* lookup, HTTP request or connection call is issued for it.
C4_LegacyMapsOneToOne ==
    LET f == req.body.f
    IN  (req.body.kind = "object" /\ f.webhook_version # "1"
         /\ f.content \notin {Undef, ""} /\ f.sender_name \notin {Undef, ""})
        => /\ req.pc = "dispatch"
           /\ obs.routed /\ obs.response = 0 /\ obs.threw = "none"
           /\ req.n.channel_id = f.channel_id
           /\ req.n.sender_name = f.sender_name
           /\ req.n.sender_id = f.sender_id
           /\ req.n.content = f.content
           /\ req.n.message_id = f.message_id
           /\ req.n.chat_type = f.chat_type
           /\ req.n.group_name = f.group_name
           /\ obs.lookups = 0 /\ obs.http = {} /\ obs.sdk = {}
           /\ call.op = "none"

\* a legacy payload with every optional field, normalized
C4_Witness ==
    /\ JustDispatched
    /\ req.body.f.webhook_version = "2"
    /\ req.n.message_id = "m1"
    /\ req.n.chat_type = "group"
    /\ req.n.group_name = "team"

\* the header does not carry the secret as a bearer token
HeaderIsWrong(h, secret) ==
    \/ h = NoHeader
    \/ h[1] # "Bearer "
    \/ h[2] # secret

\* C5: with a webhook secret configured, a request whose Authorization header
\* is absent, has no "Bearer " prefix or carries another token is answered 401
\* before its body is parsed: no lookup, no log of the content, no routing, no
\* dispatch and no send.
C5_BadSecretRejectedFirst ==
    (req.pc # "idle" /\ req.bh.webhookSecret = "xyz"
     /\ HeaderIsWrong(req.authHeader, "xyz"))
        => /\ req.pc = "done"
           /\ obs.response = 401 /\ obs.responses = 1
           /\ ~obs.parsed /\ req.body = NoBody
           /\ obs.lookups = 0 /\ ~obs.logged /\ ~obs.routed
           /\ obs.sends = {} /\ obs.http = {} /\ obs.sdk = {}
           /\ call.op = "none"

\* a request with the token "wrong" has been answered 401
C5_Witness ==
    /\ req.authHeader = <<"Bearer ", "wrong">>
    /\ obs.response = 401

\* the request in hand was parsed into an object of either shape that lacks
\* content or sender_name
ParsedWithoutRequired ==
    LET f == req.body.f
        content == IF f.webhook_version = "1" THEN f.message.content ELSE f.content
    IN  /\ req.body.kind = "object"
        /\ content \in {Undef, ""} \/ f.sender_name \in {Undef, ""}

\* C6: a parsed payload of either shape without content or sender_name is
\* answered 400 and never reaches host routing or reply dispatch.
C6_MissingFieldsAnswered400 ==
    (req.pc = "done" /\ ParsedWithoutRequired)
        => /\ obs.response = 400 /\ obs.responses = 1
           /\ ~obs.routed /\ obs.sends = {}

\* C7: every webhook request ends with exactly one response, of status 401,
\* 400 or 200; the handler never ends by throwing with no response written.
C7_AlwaysOneResponse ==
    req.pc = "done"
        => /\ obs.responses = 1
           /\ obs.response \in {401, 400, 200}
           /\ obs.threw = "none"

\* C8: a channel identifier that does not match the pattern never reaches the
\* network: no HTTP request is issued for it by sendToChannel or
\* fetchChannelInfo, no connection send primitive is invoked with it, and the
\* channel send in hand has been rejected.
C8_InvalidChannelIdNeverSent ==
    /\ \A e \in obs.http : e[1] \in {"channel", "lookup"} => CHANNEL_ID_RE(e[2])
    /\ \A e \in obs.sdk : e[1] = "channel" => CHANNEL_ID_RE(e[2])
    /\ (call.op = "channel" /\ ~CHANNEL_ID_RE(call.target)) => call.pc = "thrown"

\* fetchChannelInfo is the call in hand (webhook-only builds)
InFetchChannelInfo == call.op = "lookup" /\ variant # "sdk"

\* C9 as stated: fetchChannelInfo never raises, whatever the channel id.
C9_FetchChannelInfoNeverRaises ==
    InFetchChannelInfo => call.pc # "thrown"

\* C9 as amended: for a channel id that matches the pattern fetchChannelInfo
\* never raises; it returns {type, name} of the answer only when the last
\* attempt was a 2xx whose JSON is an object, and null after every failure
\* (status not 2xx, 429 to the last attempt, network error, unparsable or null
\* JSON, hubUrl missing).  For an id that does not match it raises the
\* invalid-id error before any request.
C9_FetchChannelInfoNullOnFailure ==
    InFetchChannelInfo
        => /\ call.pc = "thrown"
              => /\ ~CHANNEL_ID_RE(call.target)
                 /\ call.err.kind = "invalid_channel"
                 /\ call.issued = 0
           /\ ~CHANNEL_ID_RE(call.target) => call.pc = "thrown"
           /\ call.pc = "returned"
              => IF call.issued > 0 /\ call.resp.kind = "resp"
                    /\ call.resp.status = 200 /\ call.resp.json.kind = "object"
                 THEN /\ call.ret.kind = "object"
                      /\ call.ret.type = call.resp.json.type
                      /\ call.ret.name = call.resp.json.name
                 ELSE call.ret = NullInfo

\* fetchChannelInfo has returned null after an answer that was not 2xx
C9_Witness ==
    /\ InFetchChannelInfo
    /\ call.pc = "returned"
    /\ call.ret = NullInfo
    /\ call.resp.status = 500

\* C10: an outbound HTTP call that keeps receiving 429 makes exactly 3 attempts
\* and then fails with an error carrying 429; a 2xx ends the call at once.
C10_ThreeAttemptsOn429 ==
    /\ call.issued <= MAX_SEND_RETRIES + 1
    /\ (call.pc \in {"returned", "thrown"} /\ call.err.kind = "http"
        /\ call.err.status = 429)
           => call.issued = MAX_SEND_RETRIES + 1
    /\ (call.pc = "delay") => call.resp.status = 429
    /\ (call.pc \in {"returned", "thrown"} /\ call.resp.status = 200)
           => call.err.kind \in {"none", "json"}

\* the seconds a Retry-After header asks for, for the headers that are a number
RetryAfterSeconds == [h \in {"5", "0", "-3"} |->
                         CASE h = "5" -> 5 [] h = "0" -> 0 [] h = "-3" -> 0 - 3]

\* C11: the delay before a retry after a 429 is the Retry-After value in
\* seconds times 1000 ms when the header is present and positive; with the
\* header absent, non-numeric, zero or negative it is 1000 ms times the number
\* of attempts made so far, so larger than every earlier such delay; attempt
\* k + 1 is issued only after k delays have elapsed.
C11_DelayBeforeRetry ==
    LET h == call.resp.retryAfter
        positive == h \in DOMAIN RetryAfterSeconds /\ RetryAfterSeconds[h] > 0
    IN  /\ call.issued <= Len(call.waited) + 1
        /\ call.pc = "delay"
              => /\ call.resp.status = 429
                 /\ call.issued = Len(call.waited) + 1
                 /\ positive => call.delayMs = RetryAfterSeconds[h] * 1000
                 /\ ~positive
                       => /\ call.delayMs = call.issued * RETRY_BASE_MS
                          /\ \A i \in 1..Len(call.waited) :
                                \/ call.waited[i] = 5 * 1000
                                \/ call.waited[i] < call.delayMs

\* the second retry waits the base delay twice after a first retry that waited
\* what the header asked for
C11_Witness ==
    /\ call.pc = "delay"
    /\ call.waited = <<5000>>
    /\ call.resp.retryAfter = "-3"
    /\ call.delayMs = 2000

\* C12: a response that is neither 2xx nor 429 ends the outbound call with that
\* attempt: no delay and no further request follow it, and the error carries
\* the status and the text of the response, or the status and an empty text
\* when the text cannot be read; a direct or channel send fails with that error.
C12_OtherStatusFailsAtOnce ==
    LET r == call.resp
    IN  (r.kind = "resp" /\ ~(r.status >= 200 /\ r.status <= 299) /\ r.status # 429)
        => /\ call.pc \in {"returned", "thrown"}
           /\ call.op \in {"direct", "channel"} => call.pc = "thrown"
           /\ call.err.kind = "http"
           /\ call.err.status = r.status
           /\ call.err.body = IF r.textOk THEN "hub-text" ELSE ""
           /\ call.issued = Len(call.waited) + 1
           /\ Len(call.waited) = 0 => call.issued = 1

\* a direct send has failed on its first attempt with a 500 whose text could
\* not be read
C12_Witness ==
    /\ call.op = "direct"
    /\ call.pc = "thrown"
    /\ call.issued = 1
    /\ call.resp.status = 500
    /\ ~call.resp.textOk
    /\ call.err = [kind |-> "http", status |-> 500, body |-> ""]

\* C13: a direct send or channel send made with a configuration that lacks
\* hubUrl or agentToken has failed with the configuration error before any
\* HTTP request or connection send, in every build.
C13_UnconfiguredSendFailsAtOnce ==
    (call.op \in {"direct", "channel"} /\ NotConfigured(call.bh))
        => /\ call.pc = "thrown"
           /\ call.err.kind = "config"
           /\ call.issued = 0
           /\ call.transport = "none"

\* C14: every HTTP request hubFetch issues carries Authorization: Bearer
\* <agentToken>; it carries X-Org-Id exactly when an org id is configured, with
\* that org id; it carries Content-Type exactly when the request has a body, so
\* the GET of the channel lookup carries none and the POST of a send carries it.
C14_RequestHeaders ==
    call.issued > 0
        => /\ call.headers.Authorization[1] = "Bearer "
           /\ call.bh.agentToken # Undef
                 => call.headers.Authorization[2] = call.bh.agentToken
           /\ (call.headers.XOrgId # Undef) <=> (call.bh.orgId # Undef)
           /\ call.headers.XOrgId = call.bh.orgId
           /\ (call.headers.ContentType # Undef) <=> (call.init.body # Undef)
           /\ call.op = "lookup"
                 => call.init.method = "GET" /\ call.headers.ContentType = Undef
           /\ call.op \in {"direct", "channel"}
                 => /\ call.init.method = "POST"
                    /\ call.headers.ContentType = "application/json"

\* the GET of a channel lookup is in flight with an org id and no content type
C14_Witness ==
    /\ call.op = "lookup"
    /\ call.pc = "inflight"
    /\ call.headers = [Authorization |-> <<"Bearer ", "tok">>, XOrgId |-> "org1",
                       ContentType |-> Undef]

\* the last startAccount, made in mode m, has ended
StartedIn(m) ==
    gateway.op = "start" /\ gateway.pc = "idle" /\ ResolveMode(gateway.mode) = m

\* the connect of the last startAccount has failed
ConnectFailed ==
    gateway.op = "start" /\ gateway.client # 0 /\ conns[gateway.client].state = "failed"

\* C15: after a startAccount in mode webhook, and until the next start, no
\* connection object has been created by it, it has returned normally, and
\* the connection handle is null.
C15_WebhookModeNoConnection ==
    StartedIn("webhook")
        => /\ gateway.client = 0
           /\ gateway.result = "returned"
           /\ sdkClient = 0

\* C16: in mode sdk, given or defaulted, a failed connect makes startAccount
\* throw: the start leaves the connection handle as it was (null stays null),
\* returns no stop function, and does not end as a normal return.
C16_SdkModeConnectFailureIsFatal ==
    /\ [](ResolveMode(Undef) = "sdk")
    /\ []((StartedIn("sdk") /\ ConnectFailed)
             => (gateway.result = "threw" /\ sdkClient # gateway.client))
    /\ [][(gateway.pc = "idle" /\ gateway'.pc = "connecting")
             => sdkClient' = sdkClient /\ stopFns' = stopFns]_vars
    /\ [][(gateway.pc = "connecting" /\ ResolveMode(gateway.mode) = "sdk"
           /\ conns'[gateway.client].state = "failed")
             => /\ gateway'.result = "threw"
                /\ sdkClient' = sdkClient
                /\ stopFns' = stopFns]_vars

\* a first start with no mode given has thrown on a failed connect: no handle,
\* no stop function
C16_Witness ==
    /\ StartedIn("sdk") /\ ConnectFailed
    /\ gateway.mode = Undef
    /\ gateway.result = "threw"
    /\ sdkClient = 0
    /\ ~stopFns

\* C17: in mode auto a failed connect does not fail the start: startAccount
\* returns a stop function, the connection handle is null, and a send begun
\* from then on goes over HTTP.
C17_AutoModeFallsBack ==
    (StartedIn("auto") /\ ConnectFailed)
        => /\ gateway.result = "returned"
           /\ stopFns
           /\ sdkClient = 0

\* C18: a connection object on which connect() has been called carries all six
\* handlers, and a `message` event with content and sender_name that it emits,
\* at any point from then on, reaches the host dispatch (after the channel
\* lookup, when one is made); only events without content or sender_name are
\* dropped.
C18_HandlersBeforeConnect ==
    /\ \A i \in 1..Len(conns) :
          conns[i].state = "connecting" => conns[i].handlers = EventNames
    /\ (req.src = "event" /\ req.pc \in {"dispatch", "deliver"}) => obs.routed
    /\ (req.src = "event" /\ req.pc = "done" /\ ~obs.routed)
          => (req.body.f.message.content = Undef \/ req.body.f.sender_name = Undef)

\* an event emitted by the connection object whose connect() is still awaited
\* has been dispatched, with the handle not yet assigned
C18_Witness ==
    /\ gateway.pc = "connecting"
    /\ sdkClient = 0
    /\ req.src = "event"
    /\ req.conn = gateway.client
    /\ req.pc = "dispatch"
    /\ req.body.kind = "event"
    /\ obs.routed

\* C19: after a stop the connection handle is null and the connection it
\* referred to is disconnected; a send begun while the handle is null goes over
\* HTTP; a start creates a new connection object and the handle only ever
\* refers to a connected one, never to a stopped one.
C19_StopClearsHandle ==
    /\ [](gateway.op = "stop"
             => /\ sdkClient = 0
                /\ gateway.client # 0 => conns[gateway.client].state = "disconnected")
    /\ [](sdkClient # 0 => conns[sdkClient].state = "connected")
    /\ [][(call.op = "none" /\ call'.op \in {"direct", "channel"} /\ sdkClient = 0)
             => call'.transport # "sdk"]_vars
    /\ [][Len(conns') > Len(conns)
             => /\ conns' = Append(conns, NewClient)
                /\ gateway'.client = Len(conns')]_vars

\* a stop has disconnected the connection and a reply sent after it is on its
\* way over HTTP
C19_Witness ==
    /\ gateway.op = "stop"
    /\ gateway.client = 1
    /\ conns[1].state = "disconnected"
    /\ call.op = "direct"
    /\ call.pc = "issue"
    /\ call.transport = "http"

\* C20: at most one connection object is connected and not disconnected, and
\* it is the one the connection handle refers to.
C20_AtMostOneLiveConnection ==
    LET live == {i \in 1..Len(conns) : conns[i].state = "connected"}
    IN  /\ Cardinality(live) <= 1
        /\ \A i \in live : sdkClient = i

\* a direct or channel send begins at this step
SendBegins == call.op = "none" /\ call'.op \in {"direct", "channel"}

\* C21: in the SDK build a send begun with a live handle invokes the send
\* primitive of the connection and issues no HTTP request; a send begun with a
\* null handle never invokes it and goes to HTTP (unless the channel id or the
\* configuration stops it before the request); either way a send that returns
\* returns {ok: true, messageId} with the message id of the hub's answer.
C21_TransportFollowsHandle ==
    /\ [][(variant = "sdk" /\ SendBegins /\ sdkClient # 0)
             => (call'.transport = "sdk" /\ call'.pc = "sdkwait")]_vars
    /\ [][(variant = "sdk" /\ SendBegins /\ sdkClient = 0)
             => \/ call'.transport = "http" /\ call'.pc = "issue"
                \/ call'.transport = "none" /\ call'.pc = "thrown"]_vars
    /\ []((variant = "sdk" /\ call.op \in {"direct", "channel"})
             => /\ call.transport = "sdk" => call.issued = 0
                /\ call.transport = "http" => call.sdkRet = NoJson
                /\ call.pc = "returned"
                      => /\ call.ret.kind = "object"
                         /\ call.transport = "sdk" => call.ret.id = call.sdkRet.id
                         /\ call.transport = "http" => call.ret.id = call.resp.json.id)

\* a channel send over the live connection has returned the message id the
\* connection gave, with no HTTP request
C21_Witness ==
    /\ variant = "sdk"
    /\ call.op = "channel"
    /\ call.transport = "sdk"
    /\ call.pc = "returned"
    /\ call.ret.id = "s1"
    /\ obs.http = {}

\* C22: every reply to a message normalized as group is a channel send to the
\* channel id of the message, never a direct send, also when the payload had
\* no channel_id; every reply to a message normalized as direct is a direct
\* send to its sender name.
C22_ReplyTargetFollowsChatType ==
    obs.routed
        => /\ req.isGroup
                 => \A send \in obs.sends : send = <<"channel", req.replyChannelId>>
           /\ ~req.isGroup
                 => \A send \in obs.sends : send = <<"direct", req.replySenderName>>

\* the reply payloads whose text is empty or white space only: the string
\* itself, or the text field when the payload has one
BlankPayloads ==
    { p \in ReplyPayloads : \/ p.kind = "string" /\ p.s \in {"", "   "}
                            \/ p.kind = "object" /\ p.text = "" }

\* C23: a call of deliver with a blank payload returns with no send begun and
\* nothing issued on HTTP or on the connection; a call of deliver with another
\* payload begins exactly one send, a direct send or a channel send.
C23_BlankRepliesAreDropped ==
    /\ [][(req.pc = "dispatch" /\ req'.pc = "dispatch" /\ req'.chunks = req.chunks + 1)
             => /\ req'.payload \in BlankPayloads
                /\ call' = call /\ call.op = "none"
                /\ obs' = obs]_vars
    /\ [][(req.pc = "dispatch" /\ req'.pc = "deliver")
             => /\ req'.payload \in ReplyPayloads \ BlankPayloads
                /\ call.op = "none"
                /\ call'.op \in {"direct", "channel"}
                /\ obs'.sends = obs.sends \cup {<<call'.op, call'.target>>}]_vars
    /\ [](req.pc = "deliver"
             => /\ req.payload \in ReplyPayloads \ BlankPayloads
                /\ call.op \in {"direct", "channel"})
    /\ [][(req.pc = "deliver" /\ req'.pc = "deliver") => call'.op = call.op]_vars

\* a payload with an empty text field and a body has been dropped as its first
\* reply: nothing was sent
C23_Witness ==
    /\ req.pc = "dispatch"
    /\ req.chunks = 1
    /\ req.payload.kind = "object" /\ req.payload.text = "" /\ req.payload.body = "from-body"
    /\ obs.sends = {} /\ obs.http = {} /\ obs.sdk = {}

\* C24: a send of deliver that fails, whatever the failure, is caught by
\* deliver: the handler's next step returns it to the host's dispatch, nothing
\* is thrown to the host and no response is written by it; further replies are
\* still delivered, and the webhook request ends with its one 200.
C24_ReplyFailuresAreAbsorbed ==
    /\ [][(req.pc = "deliver" /\ call.pc = "thrown" /\ req' # req)
             => /\ req'.pc = "dispatch"
                /\ obs'.replyErrors = obs.replyErrors + 1
                /\ obs'.threw = "none"
                /\ obs'.responses = 0]_vars
    /\ [](obs.routed => obs.threw = "none")
    /\ []((req.src = "webhook" /\ req.pc = "done" /\ obs.routed)
             => (obs.response = 200 /\ obs.responses = 1))
    /\ []((req.pc = "dispatch" /\ req.chunks < MaxChunks)
             => ENABLED (\E payload \in SpecPayloads : Deliver(payload)))

\* two replies have failed, the first on a configuration error, and the
\* request has been answered 200
C24_Witness ==
    /\ obs.replyErrors = 2
    /\ obs.response = 200
    /\ NotConfigured(req.bh)
    /\ variant = "botshub"

\* C25: sendText begins the channel send exactly when `to` has only characters
\* of [A-Za-z0-9_-] and 21 to 64 of them, and the direct send to the name `to`
\* otherwise; it begins that one send and no other.
C25_SendTextRoutesByShape ==
    (req.src = "host")
        => /\ call.op # "none" => (call.owner = "host" /\ call.op \in {"channel", "direct"})
           /\ Cardinality(obs.sends) = 1
           /\ \A e \in obs.sends :
                /\ e[2] \in SendTextTargets
                /\ (e[1] = "channel")
                      <=> (StrInfo[e[2]].wordChars /\ StrInfo[e[2]].len \in 21..64)
                /\ (e[1] = "direct")
                      <=> ~(StrInfo[e[2]].wordChars /\ StrInfo[e[2]].len \in 21..64)

\* a bot name of 21 characters of the pattern has been sent to as a channel
C25_Witness ==
    /\ req.src = "host"
    /\ req.pc = "done"
    /\ obs.sends = {<<"channel", "averyveryverylongname">>}
    /\ obs.threw = "none"

\* the step is taken by the SDK build while it holds no connection handle
SdkBuildWithoutHandle == variant = "sdk" /\ sdkClient = 0

\* C26: every step the SDK build takes while it holds no connection handle is
\* the step the webhook-only build takes from the same state: a v1 payload
\* with a channel_id starts the same fetchChannelInfo lookup, a send begins as
\* the webhook-only send begins (same configuration check, same channel id
\* check, same request), and a settled fetch is followed by the same retry,
\* return or error.
C26_SdkWithoutHandleIsWebhookOnly ==
    /\ [][(SdkBuildWithoutHandle /\ req.pc = "parse" /\ req'.pc # "parse"
            /\ req'.body.kind = "object" /\ WantsLookup(req'.body.f))
              => /\ req'.pc = "lookup"
                 /\ obs'.lookups = 1
                 /\ call' = BeginFetchChannelInfo("webhook", req.bh,
                                                  req'.n.channel_id)]_vars
    /\ [][(SdkBuildWithoutHandle /\ SendBegins)
              => call' = IF call'.op = "channel"
                         THEN BeginChannel("hxa", 0, call'.owner, call'.bh, call'.target)
                         ELSE BeginDirect("hxa", 0, call'.owner, call'.bh, call'.target)]_vars
    /\ [][(SdkBuildWithoutHandle /\ call.pc = "inflight" /\ call'.pc # "inflight")
              => LET step == HubFetchStep("hxa", call.attempt, call'.resp)
                     c == [call EXCEPT !.resp = call'.resp, !.settled = @ + 1]
                 IN  call' = CASE step.tag = "retry" ->
                                    [c EXCEPT !.pc = "delay", !.delayMs = step.delayMs]
                               [] step.tag = "return" ->
                                    AfterHubFetchReturn(c, call'.resp.json)
                               [] OTHER -> AfterHubFetchThrow(c, step.err)]_vars

\* C27: a `message` event with a channel_id whose channel type was not
\* resolved (no getChannel was made for want of a handle, or it threw) is
\* dispatched with isGroup = TRUE and its replies go to that channel; none of
\* its replies is a direct send.
C27_UnresolvedEventIsGroup ==
    /\ (req.src = "event" /\ req.pc = "dispatch" /\ req.body.kind = "event"
          /\ Truthy(req.body.f.channel_id)
          /\ (obs.lookups = 0 \/ obs.lookupRet.kind = "throw"))
         => /\ req.isGroup
            /\ req.replyChannelId = req.body.f.channel_id
    /\ (req.src = "event" /\ obs.lookupRet.kind = "throw")
         => \A e \in obs.sends : e[1] # "direct"

\* C28: the attempts of one call of hubFetch are strictly sequential: at most
\* one fetch is awaited at any time, and attempt k+1 is issued only when the k
\* attempts before it have all been answered and the k delays after them have
\* all elapsed.
C28_AttemptsAreSequential ==
    /\ [](/\ call.issued - call.settled \in {0, 1}
          /\ (call.pc = "inflight") <=> (call.issued - call.settled = 1))
    /\ [][(call'.issued = call.issued + 1)
              => /\ call.pc = "issue"
                 /\ call.settled = call.issued
                 /\ Len(call.waited) = call.issued]_vars

\* the third attempt is in flight: two answers and two delays lie behind it
C28_Witness ==
    /\ call.pc = "inflight"
    /\ call.issued = 3
    /\ call.settled = 2
    /\ Len(call.waited) = 2

\* C29: when every awaited fetch is answered and every timer fires, a call of
\* hubFetch that has begun comes to its end; it makes at most
\* MAX_SEND_RETRIES + 1 = 3 attempts; after a response it has either returned
\* that response, which is a 2xx, or thrown the error carrying the status of
\* the last response; and the throw after the loop is never reached.
C29_HubFetchTerminates ==
    /\ (call.pc \in {"issue", "inflight", "delay"}) ~> (call.pc \in {"returned", "thrown"})
    /\ [](call.issued <= MAX_SEND_RETRIES + 1)
    /\ [](call.err.kind # "exhausted")
    /\ []((call.pc \in {"returned", "thrown"} /\ call.resp.kind = "resp")
            => \/ RespOk(call.resp) /\ call.err.kind \in {"none", "json"}
               \/ /\ ~RespOk(call.resp)
                  /\ call.err.kind = "http"
                  /\ call.err.status = call.resp.status
                  /\ call.err.status \in {404, 429, 500})

\* a send has thrown the 429 error after its third attempt
C29_Witness ==
    /\ call.pc = "thrown"
    /\ call.issued = 3
    /\ call.settled = 3
    /\ call.err.kind = "http"
    /\ call.err.status = 429

\* C30: a parsed object is read as the versioned envelope exactly when its
\* webhook_version is the string "1": then content, sender id and message id
\* are those of the nested message; with the field absent, another string or
\* the number 1 the seven variables are the top-level fields, the nested
\* message is not read and no channel lookup is made.
C30_VersionedOnlyOnStringOne ==
    LET f == req.body.f
    IN  (req.src = "webhook" /\ req.body.kind = "object")
        => /\ (f.webhook_version = "1")
                => /\ req.n.content = f.message.content
                   /\ req.n.sender_id = f.message.sender_id
                   /\ req.n.message_id = f.message.id
                   /\ req.n.channel_id = f.channel_id
                   /\ req.n.sender_name = f.sender_name
           /\ (f.webhook_version # "1")
                => /\ req.n.content = f.content
                   /\ req.n.sender_id = f.sender_id
                   /\ req.n.message_id = f.message_id
                   /\ req.n.channel_id = f.channel_id
                   /\ req.n.sender_name = f.sender_name
                   /\ req.n.chat_type = f.chat_type
                   /\ req.n.group_name = f.group_name
                   /\ obs.lookups = 0
           /\ (f.webhook_version \in {Undef, "2", Num1} /\ ~Truthy(f.content))
                => (req.pc = "done" /\ obs.response = 400)

\* a flat body with webhook_version: 1 (the number) and a nested message has
\* been dispatched on its top-level fields
C30_Witness ==
    /\ JustDispatched
    /\ req.body.f.webhook_version = Num1
    /\ req.body.f.message.content = "nested"
    /\ req.n.content = "hi"
    /\ req.n.message_id = Undef
    /\ req.isGroup

\* the step is the `close` handler of some connection object
CloseStep == \E i \in 1..Len(conns) : ~conns[i].closed /\ conns'[i].closed

\* the step is a successful end of `await client.connect()`
ConnectSucceeds ==
    /\ gateway.pc = "connecting"
    /\ gateway'.pc = "idle"
    /\ gateway'.result = "returned"
    /\ conns[gateway.client].state = "connecting"
    /\ conns'[gateway.client].state = "connected"

\* C31: the status becomes "connected" only in the step in which connect()
\* completes successfully, so after a `close` it is "connected" again only
\* through a new successful connect; every `close` event sets it to
\* "disconnected"; and it is not "connected" when the last connect has failed.
C31_StatusFollowsConnection ==
    /\ [][(accountStatus' = "connected" /\ accountStatus # "connected")
              => ConnectSucceeds]_vars
    /\ [][CloseStep => accountStatus' = "disconnected"]_vars
    /\ [][(accountStatus = "disconnected" /\ accountStatus' # "disconnected")
              => gateway'.op = "start"]_vars
    /\ []((gateway.op = "start" /\ gateway.pc = "idle" /\ gateway.client # 0
            /\ conns[gateway.client].state = "failed")
              => accountStatus # "connected")

\* a connection was reported connected, closed, and after a second start the
\* status is "connected" again
C31_Witness ==
    /\ Len(conns) = 2
    /\ conns[1].closed
    /\ conns[2].state = "connected"
    /\ ~conns[2].closed
    /\ accountStatus = "connected"

\* the step starts the `message` handler of a connection object
MessageHandlerStarts ==
    /\ req.pc \in {"idle", "done"}
    /\ req'.src = "event"
    /\ req' # req

\* C32: a connection object whose connect() has failed has been disconnected,
\* and no `message` event of it starts the handler.
C32_FailedConnectionIsTornDown ==
    /\ [](\A i \in 1..Len(conns) : conns[i].state # "failed")
    /\ [][MessageHandlerStarts => conns[req'.conn].state # "failed"]_vars

\* C33: a send goes over the connection only when the connection object in
\* sdkClient is open; once that object has emitted `close`, and until a new
\* connect has succeeded, a direct or channel send that begins uses HTTP.
C33_ClosedConnectionIsNotUsed ==
    /\ [][(SendBegins /\ call'.transport = "sdk")
              => /\ sdkClient # 0
                 /\ conns[sdkClient].state = "connected"
                 /\ ~conns[sdkClient].closed]_vars
    /\ [][(SendBegins /\ sdkClient # 0 /\ conns[sdkClient].closed)
              => call'.transport = "http"]_vars

\* the send deliver begins for the request whose handler holds the locals r
OwnTarget(r) ==
    IF r.isGroup /\ Truthy(r.replyChannelId)
    THEN <<"channel", r.replyChannelId>>
    ELSE <<"direct", r.replySenderName>>

\* C34: with two requests in hand at once, every reply send of each goes to
\* the channel or sender of its own message and never to that of the other; a
\* step of one handler changes nothing of the other, and neither changes the
\* connection handle.
C34_ReplyTargetsAreOwn ==
    /\ []((req.src = "webhook" /\ peer.r.src = "webhook")
            => /\ \A e \in obs.sends :
                    e = OwnTarget(req) /\ e[2] \in {"bob", "c1"}
               /\ \A e \in peer.sends :
                    e = OwnTarget(peer.r) /\ e[2] \in {"amy", "c2"})
    /\ [][(peer' # peer) => (req' = req /\ call' = call /\ obs' = obs)]_vars
    /\ [][(req' # req \/ call' # call \/ obs' # obs) => peer' = peer]_vars
    /\ [][(peer' # peer \/ req' # req \/ call' # call \/ obs' # obs)
              => (sdkClient' = sdkClient /\ conns' = conns /\ gateway' = gateway)]_vars

\* while a channel reply of the first request is awaited, the second request
\* has replied to its own sender
C34_Witness ==
    /\ req.pc = "deliver"
    /\ obs.sends = {<<"channel", "c1">>}
    /\ peer.r.pc = "dispatch"
    /\ peer.sends = {<<"direct", "amy">>}

\* C35: a webhook message is dispatched as group exactly when its resolved
\* chat type is the string "group".  With any other resolved value (a lookup
\* that succeeded with no type or with a type other than "direct" and "group",
\* a flat payload with no chat_type) it is dispatched as direct, it captures
\* no reply channel, and every reply is a direct send to its sender_name.
C35_GroupOnlyOnGroupType ==
    /\ JustDispatched
         => /\ req.isGroup <=> (req.n.chat_type = "group")
            /\ req.ctx.ChatType = (IF req.n.chat_type = "group" THEN "group" ELSE "direct")
            /\ (obs.lookupRet.kind = "object" /\ obs.lookupRet.type # "group")
                 => (~req.isGroup /\ req.n.chat_type = obs.lookupRet.type)
            /\ (~IsV1(req.body.f) /\ req.body.f.chat_type = Undef) => ~req.isGroup
    /\ (req.src = "webhook" /\ req.pc \in {"dispatch", "deliver", "done"} /\ ~req.isGroup)
         => /\ req.replyChannelId = Undef
            /\ \A e \in obs.sends : e = <<"direct", req.replySenderName>>

\* a lookup that answered with the type "thread": the reply went to the
\* sender as a DM
C35_Witness ==
    /\ obs.lookupRet.kind = "object"
    /\ obs.lookupRet.type = "thread"
    /\ ~req.isGroup
    /\ obs.sends = {<<"direct", "bob">>}
    /\ obs.response = 200

\* the webhook request in hand has been answered 400
Rejected400 == req.src = "webhook" /\ req.pc = "done" /\ obs.response = 400

\* C36, as stated: a request answered 400 has issued no channel lookup, no
\* send and no connection call.
C36_RejectedRequestIssuesNothing ==
    Rejected400
        => /\ obs.lookups = 0
           /\ obs.sends = {}
           /\ obs.http = {}
           /\ obs.sdk = {}

\* C36, amended: a request answered 400 was never dispatched and has issued no
\* send; a flat payload has issued no call at all; a v1 payload with a
\* channel_id has made its one channel lookup before the validation (a GET of
\* the channel in the webhook-only builds, getChannel on a live handle in the
\* SDK build), and nothing else.
C36_RejectedRequestSendsNothing ==
    LET f == req.body.f
        v1WithChannel == f.webhook_version = "1" /\ Truthy(f.channel_id)
    IN  Rejected400
        => /\ ~obs.routed
           /\ obs.sends = {}
           /\ \A e \in obs.http \cup obs.sdk : e = <<"lookup", f.channel_id>>
           /\ ~v1WithChannel => (obs.lookups = 0 /\ obs.http = {} /\ obs.sdk = {})
           /\ (v1WithChannel /\ variant # "sdk")
                => (obs.lookups = 1 /\ obs.lookupTarget = f.channel_id /\ obs.sdk = {})
           /\ (v1WithChannel /\ variant = "sdk")
                => (obs.http = {} /\ obs.lookups = Cardinality(obs.sdk))

\* a v1 payload with a channel_id and no content: the channel was looked up
\* over HTTP and the request was answered 400
C36_Witness ==
    /\ Rejected400
    /\ req.body.f.webhook_version = "1"
    /\ obs.lookups = 1
    /\ obs.http = {<<"lookup", "c1">>}
    /\ obs.lookupRet.kind = "object"

\* the request in hand carries a v1 payload with content and sender_name and
\* no channel_id
V1WithoutChannel ==
    /\ req.src = "webhook"
    /\ req.body.kind = "object"
    /\ req.body.f.webhook_version = "1"
    /\ ~Truthy(req.body.f.channel_id)
    /\ Truthy(req.body.f.message.content)
    /\ Truthy(req.body.f.sender_name)

\* C37: a v1 payload with content and sender_name and no channel_id is
\* dispatched as direct without any lookup or other call, and the reply its
\* deliver begins is a direct send to its sender_name; a request that captured
\* no reply channel sends every reply so.
C37_V1WithoutChannelIsDirect ==
    /\ [](V1WithoutChannel
            => /\ req.pc = "dispatch"
               /\ obs.lookups = 0 /\ obs.http = {} /\ obs.sdk = {}
               /\ ~req.isGroup
               /\ req.ctx.ChatType = "direct"
               /\ req.replyChannelId = Undef
               /\ req.replySenderName = req.body.f.sender_name)
    /\ [][(V1WithoutChannel /\ SendBegins)
              => /\ call'.op = "direct"
                 /\ call'.target = req.body.f.sender_name]_vars
    /\ [][(req.src = "webhook" /\ req.replyChannelId = Undef /\ SendBegins)
              => /\ call'.op = "direct"
                 /\ call'.target = req.replySenderName]_vars

\* a v1 payload from bob with no channel_id, dispatched as direct
C37_Witness ==
    /\ V1WithoutChannel
    /\ req.pc = "dispatch"
    /\ req.n.content = "hi"
    /\ req.replySenderName = "bob"
    /\ ~req.isGroup
    /\ obs.lookups = 0

\* a call of the request in hand is under way
CallUnderWay == call.pc \in {"issue", "inflight", "delay", "sdkwait"}

\* C38: the 200 of an accepted webhook request is written from the state in
\* which the host's dispatch has returned and no reply send is under way; once
\* it is written the request issues no further attempt, delay or send; and no
\* request is answered twice.
C38_OkAfterAllReplies ==
    /\ [][(obs'.response = 200 /\ obs.response # 200)
              => /\ req.pc = "dispatch"
                 /\ req.src = "webhook"
                 /\ obs.responses = 0
                 /\ ~CallUnderWay
                 /\ obs'.dispatchDone]_vars
    /\ []((req.src = "webhook" /\ obs.response = 200)
              => (req.pc = "done" /\ obs.dispatchDone /\ ~CallUnderWay))
    /\ [][(req.src = "webhook" /\ obs.response = 200 /\ obs'.response = 200)
              => (obs'.http = obs.http /\ obs'.sdk = obs.sdk /\ obs'.sends = obs.sends
                  /\ call' = call)]_vars
    /\ [](obs.responses <= 1)

\* two replies were sent over HTTP, the second failed, and then the 200 was
\* written
C38_Witness ==
    /\ req.src = "webhook"
    /\ obs.response = 200
    /\ obs.responses = 1
    /\ req.chunks = 2
    /\ obs.http = {<<"direct", "bob">>}
    /\ obs.replyErrors = 1

=============================================================================
